---- MODULE Spec2Model ----
(***************************************************************************)
(* Dependency graph engine of ALIP: TopologyAgent.build_topology           *)
(* (src/agents/topology.py) under Spec, and the source extractors with     *)
(* their directory scans (src/skills/*.py) under ScanSpec.                 *)
(* The graph is a networkx DiGraph: node                                   *)
(* attribute dictionaries keyed by node id, at most one edge per ordered   *)
(* pair, add_node/add_edge update the attributes of an existing node/edge  *)
(* and add_edge creates missing endpoints with empty attributes.           *)
(***************************************************************************)
EXTENDS Integers, Sequences, FiniteSets, TLC

VARIABLES
    HAS_NETWORKX,   \* whether `import networkx` succeeded
    files,          \* repo_artifact.data['files']
    schema_tables,  \* db_artifact.data['tables']
    pc,             \* position in build_topology
    idx,            \* index of the next element of the running for-loop
    graph,          \* nx.DiGraph: [order, nodes, edges, eorder]
    modules,        \* set returned by _extract_modules
    tables,         \* set returned by _extract_tables
    sources,        \* list of SourceReference (type, path)
    module_map,     \* module name map of _analyze_module_dependencies
    metrics,        \* result of _calculate_metrics
    spofs,          \* result of _detect_spofs
    circular,       \* result of _detect_circular_dependencies
    data,           \* the artifact's data dictionary
    saved,          \* files written to workspace.artifacts by _save_artifact
    extractor,      \* the extractor module in use (skills/*.py)
    grammars,       \* languages whose grammar tree_sitter_languages can load
    directory,      \* the files of the scanned directory, in rglob order
    scan_pc,        \* position of the caller of the extractor
    scan_idx,       \* index of the next file of the scan loop
    parsers,        \* self.parsers / self._parsers of the extractor instance
    results,        \* the results dictionary of the directory scan
    cross_captures, \* whether a query captures on the tree of another grammar
    calls,          \* the calls of extract_dependencies made so far, with their outcomes
    sql_backend,    \* the extractor class whose SQL extraction runs
    sql_literals,   \* the texts of the string literals of the file, in source order
    sql_idx,        \* index of the next literal to examine
    sql_found,      \* the sql_queries list built so far
    js_imports,     \* the imports collected by _extract_javascript, as a set
    db_calls,       \* the db_calls / function_calls list of _extract_javascript
    tr_call,        \* the arguments of a call of validate_transition
    tr_outcome,     \* what the call returned or raised
    reviews,        \* artifacts/reviews.json: the log of review decisions
    review_status,  \* review_status of the saved artifact files
    now,            \* datetime.now()
    gate_last,      \* the most recent call of a ReviewGate method
    config,         \* config/engagement.json of the engagement
    artifacts,      \* the artifacts written to the artifacts directory of the workspace
    cli_last        \* the most recent CLI command and how it ended

topoVars == <<HAS_NETWORKX, files, schema_tables, pc, idx, graph, modules, tables, sources,
              module_map, metrics, spofs, circular, data, saved>>

scanVars == <<extractor, grammars, cross_captures, directory, scan_pc, scan_idx, parsers,
              results, calls>>

sqlVars == <<sql_backend, sql_literals, sql_idx, sql_found, js_imports, db_calls>>

trVars == <<tr_call, tr_outcome>>

gateVars == <<reviews, review_status, now, gate_last>>

cliVars == <<config, artifacts, cli_last>>

restVars == <<sqlVars, trVars, gateVars, cliVars>>

vars == <<topoVars, scanVars, restVars>>

(***************************************************************************)
(* Bounds of the explored inputs.                                          *)
(***************************************************************************)
MaxFiles == 2
MaxTables == 2

None == "None"

\* no extractor is in use while build_topology runs
ScanIdle ==
    /\ extractor = None
    /\ grammars = {}
    /\ cross_captures = FALSE
    /\ directory = <<>>
    /\ scan_pc = "idle"
    /\ scan_idx = 1
    /\ parsers = {}
    /\ results = <<>>
    /\ calls = <<>>

\* no SQL extraction is running
SqlIdle ==
    /\ sql_backend = None
    /\ sql_literals = <<>>
    /\ sql_idx = 1
    /\ sql_found = <<>>
    /\ js_imports = {}
    /\ db_calls = <<>>

\* no call of validate_transition is under way
TrIdle ==
    /\ tr_call = None
    /\ tr_outcome = [kind |-> "none", value |-> None]

\* no review gate and no engagement exist
GateIdle ==
    /\ reviews = <<>>
    /\ review_status = <<>>
    /\ now = 0
    /\ gate_last = [method |-> "none", artifact_id |-> None]

CliIdle ==
    /\ config = [exists |-> FALSE, state |-> "new", read_only_mode |-> TRUE]
    /\ artifacts = {}
    /\ cli_last = [command |-> "none", exit_code |-> 0, message |-> "", consumed |-> {}]

RestIdle == SqlIdle /\ TrIdle /\ GateIdle /\ CliIdle

(***************************************************************************)
(* Python strings that the code takes apart are sequences of characters.   *)
(***************************************************************************)
RECURSIVE StrReplace(_, _, _)
\* str.replace(old, new): every non-overlapping occurrence, left to right
StrReplace(s, old, new) ==
    IF Len(s) < Len(old) THEN s
    ELSE IF SubSeq(s, 1, Len(old)) = old
         THEN new \o StrReplace(SubSeq(s, Len(old) + 1, Len(s)), old, new)
         ELSE <<Head(s)>> \o StrReplace(Tail(s), old, new)

\* dict.get(key, default)
Get(d, key, default) == IF key \in DOMAIN d THEN d[key] ELSE default

EmptyDict == [k \in {} |-> None]

\* f"module:{module_path}" and f"table:{table_name}"
ModuleId(module_path) == <<"module", module_path>>
TableId(table_name) == <<"table", table_name>>

(***************************************************************************)
(* networkx.DiGraph                                                        *)
(***************************************************************************)
\* order and eorder keep the insertion order of the node and edge dictionaries
EmptyGraph == [order |-> <<>>, nodes |-> EmptyDict, edges |-> EmptyDict, eorder |-> <<>>]

HasNode(g, n) == n \in DOMAIN g.nodes

HasEdge(g, u, v) == <<u, v>> \in DOMAIN g.edges

\* dict.update(attr) on an attribute dictionary
DictUpdate(d, attr) ==
    [k \in DOMAIN d \cup DOMAIN attr |-> IF k \in DOMAIN attr THEN attr[k] ELSE d[k]]

\* add_node that leaves a node already present alone
AddNodeNoUpdate(g, n, attr) ==
    IF HasNode(g, n) THEN g
    ELSE [g EXCEPT !.order = Append(g.order, n),
                   !.nodes = [m \in DOMAIN g.nodes \cup {n} |->
                                 IF m = n THEN attr ELSE g.nodes[m]]]

\* G.add_node(n, **attr): new node, or update of the attributes of an old one
AddNode(g, n, attr) ==
    IF HasNode(g, n)
    THEN [g EXCEPT !.nodes = [m \in DOMAIN g.nodes |->
                                 IF m = n THEN DictUpdate(g.nodes[m], attr) ELSE g.nodes[m]]]
    ELSE [g EXCEPT !.order = Append(g.order, n),
                   !.nodes = [m \in DOMAIN g.nodes \cup {n} |->
                                 IF m = n THEN attr ELSE g.nodes[m]]]

\* add_edge that leaves the attributes of an edge already present alone
AddEdgeKeepFirst(g, u, v, attr) ==
    LET g1 == IF HasNode(g, u) THEN g ELSE AddNode(g, u, EmptyDict)
        g2 == IF HasNode(g1, v) THEN g1 ELSE AddNode(g1, v, EmptyDict)
        e == <<u, v>>
    IN  IF HasEdge(g2, u, v) THEN g2
        ELSE [g2 EXCEPT !.edges = [f \in DOMAIN g2.edges \cup {e} |->
                                      IF f = e THEN attr ELSE g2.edges[f]],
                        !.eorder = Append(@, e)]

\* G.add_edge(u, v, **attr): missing endpoints are created without attributes,
\* the attributes of an edge already present are updated
AddEdge(g, u, v, attr) ==
    LET g1 == IF HasNode(g, u) THEN g ELSE AddNode(g, u, EmptyDict)
        g2 == IF HasNode(g1, v) THEN g1 ELSE AddNode(g1, v, EmptyDict)
        e == <<u, v>>
    IN  [g2 EXCEPT !.edges = [f \in DOMAIN g2.edges \cup {e} |->
                                 IF f = e
                                 THEN IF HasEdge(g2, u, v)
                                      THEN DictUpdate(g2.edges[e], attr)
                                      ELSE attr
                                 ELSE g2.edges[f]],
                    !.eorder = IF HasEdge(g2, u, v) THEN @ ELSE Append(@, e)]

NumberOfNodes(g) == Cardinality(DOMAIN g.nodes)
NumberOfEdges(g) == Cardinality(DOMAIN g.edges)
Successors(g, u) == {v \in DOMAIN g.nodes : HasEdge(g, u, v)}
InDegree(g, n) == Cardinality({e \in DOMAIN g.edges : e[2] = n})
OutDegree(g, n) == Cardinality({e \in DOMAIN g.edges : e[1] = n})


(***************************************************************************)
(* Inputs.  A file_info is an entry of data['files'] of the repository     *)
(* artifact, a table_info an entry of data['tables'] of the database       *)
(* artifact; the shapes are those of the fixtures of                       *)
(* tests/integration/test_topology_workflow.py.                            *)
(***************************************************************************)
FileInfo(path, extension, imports, sql_queries) ==
    [path |-> path, extension |-> extension, imports |-> imports,
     sql_queries |-> sql_queries]

Query(table, type, line) == [table |-> table, type |-> type, line |-> line]

\* a column without and with a 'foreign_key' entry
Col(name) == [name |-> name]
Fk(name, fk_table) ==
    [name |-> name, foreign_key |-> [table |-> fk_table, column |-> "id"]]

TableInfo(name, columns, indexes) ==
    [name |-> name, columns |-> columns, indexes |-> indexes]

SeqsUpTo(S, n) == UNION {[1..k -> S] : k \in 0..n}

\* paths and import strings, as character sequences
P_a == <<"a", ".", "p", "y">>
P_b == <<"b", ".", "p", "y">>
P_c_js == <<"c", ".", "j", "s">>
P_c == <<"c", ".", "p", "y">>
P_a_b == <<"a", "/", "b", ".", "p", "y">>
P_adotb == <<"a", ".", "b", ".", "p", "y">>
P_apyb == <<"a", ".", "p", "y", "b", ".", "p", "y">>
S_a == <<"a">>
S_b == <<"b">>
S_c == <<"c">>
S_os == <<"o", "s">>
S_a_b == <<"a", ".", "b">>
S_a_pyb == <<"a", ".", "p", "y", "b">>
S_ab == <<"a", "b">>

\* the schema side: two declared table names, and foreign keys that may
\* also point at "archive", a table no schema of the model declares
TableNames == {"users", "orders"}

ColumnLists ==
    { <<Col("id")>>,
      <<Col("id"), Fk("user_id", "users")>>,
      <<Fk("user_id", "users"), Fk("owner_id", "users")>>,
      <<Col("id"), Fk("order_id", "orders")>>,
      <<Fk("archive_id", "archive")>>,
      <<Fk("user_id", "users"), Fk("order_id", "orders")>> }

IndexesOf(name) == IF name = "users" THEN <<[name |-> "idx_users_email"]>> ELSE <<>>

TableInfos == {TableInfo(n, c, IndexesOf(n)) : n \in TableNames, c \in ColumnLists}

UsersTable == TableInfo("users", <<Col("id"), Col("email")>>, <<>>)
OrdersTable == TableInfo("orders", <<Col("id"), Fk("user_id", "users")>>, <<>>)
OrdersArchived == TableInfo("orders", <<Fk("archive_id", "archive")>>, <<>>)

FewSchemas == { <<>>, <<UsersTable>>, <<OrdersArchived, UsersTable>> }

\* the repository side
ImportFiles ==
    { FileInfo(p[1], p[2], i, <<>>) :
         p \in {<<P_a, ".py">>, <<P_b, ".py">>, <<P_c_js, ".js">>},
         i \in {<<>>, <<S_b>>, <<S_a, S_os>>} }

NameFiles ==
    { FileInfo(p, ".py", <<i>>, <<>>) :
         p \in {P_a_b, P_adotb, P_apyb},
         i \in {S_a_b, S_a_pyb, S_ab} }

QueryLists ==
    { <<>>,
      <<Query("users", "SELECT", 10)>>,
      <<Query("users", "SELECT", 10), Query("users", "INSERT", 20)>>,
      <<Query("archive", "DELETE", 5)>>,
      <<Query(None, None, 7), Query("orders", "UPDATE", 8)>> }

\* the record of a file whose extraction failed: only an error
ErrorFile(path, extension) ==
    [path |-> path, extension |-> extension, imports |-> <<>>, sql_queries |-> <<>>,
     error |-> "parse error"]

QueryFiles ==
    { FileInfo(p[1], p[2], <<>>, q) :
         p \in {<<P_a, ".py">>, <<P_c_js, ".js">>}, q \in QueryLists }
    \cup {ErrorFile(P_b, ".py")}

FewRepos ==
    { <<>>,
      <<FileInfo(P_a, ".py", <<>>,
                 <<Query("orders", "SELECT", 3), Query("archive", "SELECT", 4),
                   Query("orders", "DELETE", 9)>>)>> }

\* spec section 8: module A imports module B, B selects from users
ChainA == FileInfo(P_a, ".py", <<S_b>>, <<>>)
ChainB == FileInfo(P_b, ".py", <<>>, <<Query("users", "SELECT", 10)>>)

\* three modules that import each other in a ring: a -> b -> c -> a
RingA == FileInfo(P_a, ".py", <<S_b>>, <<>>)
RingB == FileInfo(P_b, ".py", <<S_c>>, <<>>)
RingC == FileInfo(P_c, ".py", <<S_a>>, <<>>)

\* a line of five nodes: a -> b -> c -> orders -> users
LineC == FileInfo(P_c, ".py", <<>>, <<Query("orders", "SELECT", 10)>>)

\* two modules between a and users, and users in front of orders:
\* a -> {b, c} -> users -> orders
ForkA == FileInfo(P_a, ".py", <<S_b, S_c>>, <<>>)
ForkC == FileInfo(P_c, ".py", <<>>, <<Query("users", "SELECT", 10)>>)
UsersOfOrder == TableInfo("users", <<Col("id"), Fk("order_id", "orders")>>, <<>>)
OrdersPlain == TableInfo("orders", <<Col("id")>>, <<>>)

Scenarios ==
    { <<<<ChainA, ChainB>>, <<UsersTable>>>>,
      <<<<RingA, RingB, LineC>>, <<OrdersTable, UsersTable>>>>,
      <<<<ForkA, ChainB, ForkC>>, <<UsersOfOrder, OrdersPlain>>>>,
      <<<<ChainB, ChainA>>, <<UsersTable>>>>,
      <<<<RingA, RingB, RingC>>, <<>>>>,
      <<<<RingC, RingA, RingB>>, <<UsersTable>>>>,
      <<<<>>, <<OrdersTable, UsersTable>>>>,
      <<<<>>, <<UsersTable, OrdersTable>>>> }

Inputs ==
    (SeqsUpTo(ImportFiles, MaxFiles) \X FewSchemas)
    \cup (SeqsUpTo(NameFiles, MaxFiles) \X FewSchemas)
    \cup (SeqsUpTo(QueryFiles, MaxFiles) \X FewSchemas)
    \cup (FewRepos \X SeqsUpTo(TableInfos, MaxTables))
    \cup Scenarios

(***************************************************************************)
(* build_topology, one action per loop iteration or call.                  *)
(***************************************************************************)
Phases == <<"extract_modules", "extract_tables", "code_db", "module_map",
            "module_deps", "metrics", "spofs", "circular", "output", "done">>

\* number of steps of a phase: the length of the list its for-loop runs over
LoopLen(p) ==
    CASE p \in {"extract_modules", "code_db", "module_deps"} -> Len(files)
      [] p = "extract_tables" -> Len(schema_tables)
      [] OTHER -> 1

RECURSIVE Enter(_)
\* the first phase from the k-th on whose loop is not empty
Enter(k) == IF LoopLen(Phases[k]) = 0 THEN Enter(k + 1) ELSE <<Phases[k], 1>>

PhaseNo(p) == CHOOSE k \in 1..Len(Phases) : Phases[k] = p

\* control after step i of phase p
After(p, i) == IF i < LoopLen(p) THEN <<p, i + 1>> ELSE Enter(PhaseNo(p) + 1)

Goto(pos) == pc' = pos[1] /\ idx' = pos[2]

Init ==
    /\ ScanIdle
    /\ RestIdle
    /\ HAS_NETWORKX \in BOOLEAN
    /\ \E inp \in Inputs : files = inp[1] /\ schema_tables = inp[2]
    /\ pc = "import"
    /\ idx = 1
    /\ graph = EmptyGraph
    /\ modules = {}
    /\ tables = {}
    /\ sources = <<>>
    /\ module_map = EmptyDict
    /\ metrics = EmptyDict
    /\ spofs = <<>>
    /\ circular = <<>>
    /\ data = EmptyDict
    /\ saved = {}

\* The import of agents/topology.py.  With nx = None the class body holds
\* the annotations `graph: nx.DiGraph`: an interpreter that evaluates
\* annotations when the function is defined raises AttributeError there, one
\* that defers them defines the class.
ImportModule ==
    /\ pc = "import"
    /\ IF HAS_NETWORKX
       THEN pc' = "init"
       ELSE pc' \in {"AttributeError", "init"}
    /\ UNCHANGED <<scanVars, restVars, HAS_NETWORKX, files, schema_tables, idx, graph, modules, tables,
                   sources, module_map, metrics, spofs, circular, data, saved>>

\* TopologyAgent.__init__, followed by the entry into build_topology
Construct ==
    /\ pc = "init"
    /\ IF ~HAS_NETWORKX
       THEN pc' = "ImportError" /\ idx' = idx
       ELSE Goto(Enter(1))
    /\ UNCHANGED <<scanVars, restVars, HAS_NETWORKX, files, schema_tables, graph, modules, tables,
                   sources, module_map, metrics, spofs, circular, data, saved>>

\* a module node for a file of any language
IsAnyLanguage(file_info) == TRUE

\* file_info.get('extension') == '.py'
IsPython(file_info) == Get(file_info, "extension", None) = ".py"

\* _extract_modules, one iteration of `for file_info in files`
ExtractModule ==
    /\ pc = "extract_modules"
    /\ LET file_info == files[idx]
           module_path == file_info.path
           module_id == ModuleId(module_path)
       IN  IF IsPython(file_info)
           THEN /\ graph' = AddNode(graph, module_id,
                                    [type |-> "module", name |-> module_path,
                                     metadata |-> [lines |-> Get(file_info, "lines", 0),
                                                   language |-> "Python"]])
                /\ modules' = modules \cup {module_id}
                /\ sources' = Append(sources, [type |-> "repo", path |-> module_path])
           ELSE UNCHANGED <<graph, modules, sources>>
    /\ Goto(After(pc, idx))
    /\ UNCHANGED <<scanVars, restVars, HAS_NETWORKX, files, schema_tables, tables, module_map, metrics, spofs, circular, data, saved>>

RECURSIVE AddForeignKeys(_, _, _, _)
\* the loop `for column in table_info.get('columns', [])` from column k on
AddForeignKeys(g, table_id, columns, k) ==
    IF k > Len(columns) THEN g
    ELSE LET column == columns[k]
             fk_table == IF "foreign_key" \in DOMAIN column
                         THEN Get(column.foreign_key, "table", None)
                         ELSE None
         IN  IF fk_table # None
             THEN AddForeignKeys(
                      AddEdge(g, table_id, TableId(fk_table),
                              [type |-> "references",
                               metadata |-> [column |-> column.name]]),
                      table_id, columns, k + 1)
             ELSE AddForeignKeys(g, table_id, columns, k + 1)

\* _extract_tables, one iteration of `for table_info in schema_tables`
ExtractTable ==
    /\ pc = "extract_tables"
    /\ LET table_info == schema_tables[idx]
           table_name == table_info.name
           table_id == TableId(table_name)
           g1 == AddNode(graph, table_id,
                         [type |-> "table", name |-> table_name,
                          metadata |-> [columns |-> Len(Get(table_info, "columns", <<>>)),
                                        indexes |-> Len(Get(table_info, "indexes", <<>>))]])
       IN  /\ graph' = AddForeignKeys(g1, table_id, Get(table_info, "columns", <<>>), 1)
           /\ tables' = tables \cup {table_id}
           /\ sources' = Append(sources, [type |-> "db", path |-> <<"schema/", table_name>>])
    /\ Goto(After(pc, idx))
    /\ UNCHANGED <<scanVars, restVars, HAS_NETWORKX, files, schema_tables, modules, module_map, metrics, spofs, circular, data, saved>>


RECURSIVE AddUses(_, _, _, _)
\* the loop `for query in queries` from query k on
AddUses(g, module_id, queries, k) ==
    IF k > Len(queries) THEN g
    ELSE LET query == queries[k]
             table == Get(query, "table", None)
         IN  IF table # None /\ HasNode(g, TableId(table))
             THEN AddUses(
                      AddEdge(g, module_id, TableId(table),
                              [type |-> "uses",
                               metadata |-> [query_type |-> Get(query, "type", "unknown"),
                                             line |-> Get(query, "line", None)]]),
                      module_id, queries, k + 1)
             ELSE AddUses(g, module_id, queries, k + 1)

\* _analyze_code_db_dependencies, one iteration of `for file_info in files`
AnalyzeCodeDb ==
    /\ pc = "code_db"
    /\ LET file_info == files[idx]
           module_id == ModuleId(file_info.path)
       IN  IF ~IsPython(file_info) \/ ~HasNode(graph, module_id)
           THEN UNCHANGED graph
           ELSE graph' = AddUses(graph, module_id, Get(file_info, "sql_queries", <<>>), 1)
    /\ Goto(After(pc, idx))
    /\ UNCHANGED <<scanVars, restVars, HAS_NETWORKX, files, schema_tables, modules, tables, sources, module_map,
                   metrics, spofs, circular, data, saved>>

\* path.replace('/', '.').replace('.py', '')
ModuleName(path) == StrReplace(StrReplace(path, <<"/">>, <<".">>), <<".", "p", "y">>, <<>>)

RECURSIVE ModuleMapFrom(_, _)
\* the loop that fills module_map, from file k on: a later file with the
\* same module name replaces the earlier entry
ModuleMapFrom(m, k) ==
    IF k > Len(files) THEN m
    ELSE IF IsPython(files[k])
         THEN LET module_name == ModuleName(files[k].path)
              IN  ModuleMapFrom(
                      [n \in DOMAIN m \cup {module_name} |->
                          IF n = module_name THEN ModuleId(files[k].path) ELSE m[n]],
                      k + 1)
         ELSE ModuleMapFrom(m, k + 1)

\* _analyze_module_dependencies, the first loop (`# Build module name map`)
BuildModuleMap ==
    /\ pc = "module_map"
    /\ module_map' = ModuleMapFrom(EmptyDict, 1)
    /\ Goto(After(pc, idx))
    /\ UNCHANGED <<scanVars, restVars, HAS_NETWORKX, files, schema_tables, graph, modules, tables, sources,
                   metrics, spofs, circular, data, saved>>

RECURSIVE AddImports(_, _, _, _)
\* the loop `for imported_module in imports` from import k on
AddImports(g, module_id, imports, k) ==
    IF k > Len(imports) THEN g
    ELSE LET imported_module == imports[k]
         IN  IF imported_module \in DOMAIN module_map
                /\ HasNode(g, module_map[imported_module])
             THEN AddImports(
                      AddEdge(g, module_id, module_map[imported_module],
                              [type |-> "imports",
                               metadata |-> [import |-> imported_module]]),
                      module_id, imports, k + 1)
             ELSE AddImports(g, module_id, imports, k + 1)

\* _analyze_module_dependencies, one iteration of the second loop
AnalyzeModuleDeps ==
    /\ pc = "module_deps"
    /\ LET file_info == files[idx]
           module_id == ModuleId(file_info.path)
       IN  IF ~IsPython(file_info)
           THEN UNCHANGED graph
           ELSE graph' = AddImports(graph, module_id, Get(file_info, "imports", <<>>), 1)
    /\ Goto(After(pc, idx))
    /\ UNCHANGED <<scanVars, restVars, HAS_NETWORKX, files, schema_tables, modules, tables, sources, module_map,
                   metrics, spofs, circular, data, saved>>


(***************************************************************************)
(* Graph algorithms of networkx used by the structural analysis.  Floats   *)
(* are kept as exact fractions [num, den].                                 *)
(***************************************************************************)
Rat(n, d) == [num |-> n, den |-> d]
RatGt(a, b) == a.num * b.den > b.num * a.den
RatEq(a, b) == a.num * b.den = b.num * a.den

Range(f) == {f[x] : x \in DOMAIN f}

RECURSIVE SumFn(_)
SumFn(f) ==
    IF DOMAIN f = {} THEN 0
    ELSE LET x == CHOOSE y \in DOMAIN f : TRUE
         IN  f[x] + SumFn([y \in DOMAIN f \ {x} |-> f[y]])

\* max() of a non-empty collection of fractions
MaxRat(S) == CHOOSE a \in S : \A b \in S : ~RatGt(b, a)

\* position of a node in the iteration order of the graph
Pos(g, n) == CHOOSE k \in 1..Len(g.order) : g.order[k] = n

RECURSIVE Bfs(_, _, _, _, _)
\* breadth-first distances from the nodes of `seen`
Bfs(g, frontier, seen, d, dist) ==
    IF frontier = {} THEN dist
    ELSE LET next == (UNION {Successors(g, u) : u \in frontier}) \ seen
         IN  Bfs(g, next, seen \cup next, d + 1,
                 [n \in DOMAIN dist \cup next |-> IF n \in next THEN d + 1 ELSE dist[n]])

\* shortest-path lengths from s to the nodes reachable from s
ShortestDist(g, s) == Bfs(g, {s}, {s}, 0, [n \in {s} |-> 0])

RECURSIVE SigmaTo(_, _, _, _)
\* number of shortest paths from s to t (t reachable from s)
SigmaTo(g, dist, s, t) ==
    IF t = s THEN 1
    ELSE SumFn([u \in {w \in DOMAIN dist : HasEdge(g, w, t) /\ dist[w] + 1 = dist[t]} |->
                   SigmaTo(g, dist, s, u)])

\* a common multiple of every shortest-path count of the graphs explored
SigmaLcm == 2 * 2 * 3 * 5

\* sum over s, t of sigma_st(v) / sigma_st, times SigmaLcm
BetweennessRaw(g, v) ==
    SumFn([st \in {p \in (DOMAIN g.nodes) \X (DOMAIN g.nodes) :
                      /\ p[1] # p[2] /\ p[1] # v /\ p[2] # v
                      /\ p[2] \in DOMAIN ShortestDist(g, p[1])} |->
              LET s == st[1]
                  t == st[2]
                  ds == ShortestDist(g, s)
                  dv == ShortestDist(g, v)
              IN  IF v \in DOMAIN ds /\ t \in DOMAIN dv /\ ds[v] + dv[t] = ds[t]
                  THEN (SigmaLcm * SigmaTo(g, ds, s, v) * SigmaTo(g, dv, v, t))
                           \div SigmaTo(g, ds, s, t)
                  ELSE 0])

\* betweenness scaled as if the endpoints were counted: 1 / (n (n - 1))
BetweennessEndpointScale(g) ==
    LET n == NumberOfNodes(g)
        scale == IF n < 2 THEN 1 ELSE n * (n - 1)
    IN  [v \in DOMAIN g.nodes |-> Rat(BetweennessRaw(g, v), SigmaLcm * scale)]

\* nx.betweenness_centrality(G): normalized, endpoints excluded, directed;
\* the scale is 1 / ((n - 1)(n - 2)) for n > 2 and none otherwise
BetweennessCentrality(g) ==
    LET n == NumberOfNodes(g)
        scale == IF n <= 2 THEN 1 ELSE (n - 1) * (n - 2)
    IN  [v \in DOMAIN g.nodes |-> Rat(BetweennessRaw(g, v), SigmaLcm * scale)]

\* nx.degree_centrality(G): in-degree plus out-degree over n - 1
DegreeCentrality(g) ==
    LET n == NumberOfNodes(g)
    IN  IF n <= 1 THEN [v \in DOMAIN g.nodes |-> Rat(1, 1)]
        ELSE [v \in DOMAIN g.nodes |-> Rat(InDegree(g, v) + OutDegree(g, v), n - 1)]

\* the density of an undirected graph: 2m / (n(n-1))
DensityUndirected(g) ==
    LET n == NumberOfNodes(g)
        m == NumberOfEdges(g)
    IN  IF m = 0 \/ n <= 1 THEN Rat(0, 1) ELSE Rat(2 * m, n * (n - 1))

\* nx.density(G) of a directed graph
Density(g) ==
    LET n == NumberOfNodes(g)
        m == NumberOfEdges(g)
    IN  IF m = 0 \/ n <= 1 THEN Rat(0, 1) ELSE Rat(m, n * (n - 1))

RECURSIVE CyclesFrom(_, _)
\* the elementary circuits that extend `path` and whose first node is the
\* earliest of their nodes in the iteration order of the graph
CyclesFrom(g, path) ==
    LET start == path[1]
        last == path[Len(path)]
        closed == IF HasEdge(g, last, start) THEN {path} ELSE {}
        ext == {v \in Successors(g, last) :
                   Pos(g, v) > Pos(g, start) /\ v \notin Range(path)}
    IN  closed \cup UNION {CyclesFrom(g, Append(path, v)) : v \in ext}

\* nx.simple_cycles(G): every elementary circuit once, a self-loop as a
\* circuit of length 1
SimpleCycles(g) == UNION {CyclesFrom(g, <<n>>) : n \in DOMAIN g.nodes}

RECURSIVE SetToSeq(_)
SetToSeq(S) ==
    IF S = {} THEN <<>>
    ELSE LET x == CHOOSE y \in S : TRUE IN <<x>> \o SetToSeq(S \ {x})

RECURSIVE Filter(_, _)
\* [x for x in seq if x in S]
Filter(seq, S) ==
    IF seq = <<>> THEN <<>>
    ELSE (IF Head(seq) \in S THEN <<Head(seq)>> ELSE <<>>) \o Filter(Tail(seq), S)

(***************************************************************************)
(* Structural analysis.                                                    *)
(***************************************************************************)
\* threshold = 0.1 and the 0.3 of risk_level, in tenths
SpofThresholdTenths == 1
HighRiskTenths == 3

\* _calculate_metrics
CalculateMetricsOf(g) ==
    LET base == [node_count |-> NumberOfNodes(g),
                 edge_count |-> NumberOfEdges(g),
                 density |-> IF NumberOfNodes(g) > 0 THEN Density(g) ELSE Rat(0, 1)]
    IN  IF NumberOfNodes(g) > 0
        THEN DictUpdate(base,
                 [max_degree_centrality |-> MaxRat(Range(DegreeCentrality(g))),
                  max_betweenness_centrality |-> MaxRat(Range(BetweennessCentrality(g)))])
        ELSE base

CalculateMetrics ==
    /\ pc = "metrics"
    /\ metrics' = CalculateMetricsOf(graph)
    /\ Goto(After(pc, idx))
    /\ UNCHANGED <<scanVars, restVars, HAS_NETWORKX, files, schema_tables, graph, modules, tables, sources, module_map,
                   spofs, circular, data, saved>>

\* a selection that keeps every node some shortest path runs through
IsOnSomePath(centrality) == RatGt(centrality, Rat(0, 1))

\* centrality > threshold
IsSpof(centrality) == RatGt(centrality, Rat(SpofThresholdTenths, 10))

\* 'high' if centrality > 0.3 else 'medium'
RiskLevel(centrality) ==
    IF RatGt(centrality, Rat(HighRiskTenths, 10)) THEN "high" ELSE "medium"

RECURSIVE InsertDesc(_, _)
\* list.sort(key=betweenness_centrality, reverse=True) is stable: x goes
\* behind every element that is not smaller
InsertDesc(sorted, x) ==
    IF sorted = <<>> THEN <<x>>
    ELSE IF RatGt(x.betweenness_centrality, Head(sorted).betweenness_centrality)
         THEN <<x>> \o sorted
         ELSE <<Head(sorted)>> \o InsertDesc(Tail(sorted), x)

RECURSIVE SortDesc(_, _)
SortDesc(sorted, rest) ==
    IF rest = <<>> THEN sorted ELSE SortDesc(InsertDesc(sorted, Head(rest)), Tail(rest))

\* _detect_spofs
DetectSpofsOf(g) ==
    IF NumberOfNodes(g) = 0 THEN <<>>
    ELSE LET betweenness == BetweennessCentrality(g)
             Record(node_id) ==
                 [node_id |-> node_id,
                  node_type |-> Get(g.nodes[node_id], "type", None),
                  node_name |-> Get(g.nodes[node_id], "name", None),
                  betweenness_centrality |-> betweenness[node_id],
                  dependencies_count |-> InDegree(g, node_id) + OutDegree(g, node_id),
                  risk_level |-> RiskLevel(betweenness[node_id])]
             found == Filter(g.order, {n \in DOMAIN g.nodes : IsSpof(betweenness[n])})
         IN  SortDesc(<<>>, [k \in 1..Len(found) |-> Record(found[k])])

\* a detection that marks the nodes it reports in the graph
DetectSpofsMarking ==
    /\ pc = "spofs"
    /\ spofs' = DetectSpofsOf(graph)
    /\ graph' = [graph EXCEPT !.nodes =
                     [n \in DOMAIN graph.nodes |->
                         IF IsSpof(BetweennessCentrality(graph)[n])
                         THEN DictUpdate(graph.nodes[n], [spof |-> TRUE])
                         ELSE graph.nodes[n]]]
    /\ Goto(After(pc, idx))
    /\ UNCHANGED <<scanVars, restVars, HAS_NETWORKX, files, schema_tables, modules, tables, sources, module_map,
                   metrics, circular, data, saved>>

DetectSpofs ==
    /\ pc = "spofs"
    /\ spofs' = DetectSpofsOf(graph)
    /\ Goto(After(pc, idx))
    /\ UNCHANGED <<scanVars, restVars, HAS_NETWORKX, files, schema_tables, graph, modules, tables, sources, module_map,
                   metrics, circular, data, saved>>

\* a filter that keeps the circuits of length 1
IsNonEmptyCycle(cycle) == Len(cycle) > 0

\* a filter that drops the circuits of two nodes
IsLongCycle(cycle) == Len(cycle) > 2

\* len(cycle) > 1
IsCircular(cycle) == Len(cycle) > 1

\* _detect_circular_dependencies
DetectCircularDependenciesOf(g) == SetToSeq({c \in SimpleCycles(g) : IsCircular(c)})

DetectCircularDependencies ==
    /\ pc = "circular"
    /\ circular' = DetectCircularDependenciesOf(graph)
    /\ Goto(After(pc, idx))
    /\ UNCHANGED <<scanVars, restVars, HAS_NETWORKX, files, schema_tables, graph, modules, tables, sources, module_map,
                   metrics, spofs, data, saved>>

\* `# 7. Build output data`: the nodes list
OutputNodes(g) ==
    [k \in 1..Len(g.order) |->
        LET node_id == g.order[k]
            node_data == g.nodes[node_id]
        IN  [id |-> node_id,
             type |-> Get(node_data, "type", "unknown"),
             name |-> Get(node_data, "name", node_id),
             metadata |-> Get(node_data, "metadata", EmptyDict)]]

RECURSIVE EdgesInOrder(_, _)
\* G.edges(): by source node from the k-th node on, the edges of one source
\* in the order they were added
EdgesInOrder(g, k) ==
    IF k > Len(g.order) THEN <<>>
    ELSE Filter(g.eorder, {e \in DOMAIN g.edges : e[1] = g.order[k]})
             \o EdgesInOrder(g, k + 1)

\* the edges list
OutputEdges(g) ==
    LET listed == EdgesInOrder(g, 1)
    IN  [k \in 1..Len(listed) |->
            LET e == listed[k]
            IN  [source |-> e[1], target |-> e[2],
                 type |-> Get(g.edges[e], "type", "uses"),
                 metadata |-> Get(g.edges[e], "metadata", EmptyDict)]]

\* _save_artifact: the four files of the topology artifact
SaveArtifact ==
    {"topology.json", "topology.md", "topology_sources.json", "topology_metrics.json"}

\* build_topology from `# 7. Build output data` to the return
BuildOutput ==
    /\ pc = "output"
    /\ LET nodes == OutputNodes(graph)
           edges == OutputEdges(graph)
       IN  data' = [nodes |-> nodes,
                    edges |-> edges,
                    spofs |-> spofs,
                    circular_dependencies |-> circular,
                    statistics |-> [total_nodes |-> Len(nodes),
                                    total_edges |-> Len(edges),
                                    modules |-> Cardinality(modules),
                                    tables |-> Cardinality(tables),
                                    spof_count |-> Len(spofs)]]
    /\ saved' = SaveArtifact
    /\ Goto(After(pc, idx))
    /\ UNCHANGED <<scanVars, restVars, HAS_NETWORKX, files, schema_tables, graph, modules, tables, sources, module_map,
                   metrics, spofs, circular>>

Next ==
    \/ ImportModule
    \/ Construct
    \/ ExtractModule
    \/ ExtractTable
    \/ AnalyzeCodeDb
    \/ BuildModuleMap
    \/ AnalyzeModuleDeps
    \/ CalculateMetrics
    \/ DetectSpofs
    \/ DetectCircularDependencies
    \/ BuildOutput

Spec == Init /\ [][Next]_vars


(***************************************************************************)
(* Source extraction: skills/tree_sitter_parser.py,                        *)
(* skills/tree_sitter_extractor.py and skills/multi_language_extractor.py. *)
(* A file is its path, its suffix, whether it can be opened, whether the   *)
(* text the extractor decodes is valid UTF-8, the path component that a    *)
(* scan may skip, and the imports written in it.  The model covers an      *)
(* environment in which tree_sitter itself can be imported.                *)
(***************************************************************************)
MaxDir == 2
MaxCalls == 3

UpperLetters ==
    <<"A", "B", "C", "D", "E", "F", "G", "H", "I", "J", "K", "L", "M", "N", "O", "P", "Q", "R", "S", "T", "U", "V", "W", "X", "Y", "Z">>
LowerLetters ==
    <<"a", "b", "c", "d", "e", "f", "g", "h", "i", "j", "k", "l", "m", "n", "o", "p", "q", "r", "s", "t", "u", "v", "w", "x", "y", "z">>

\* str.lower() on one character and on a string
LowerChar(c) ==
    IF \E i \in DOMAIN UpperLetters : UpperLetters[i] = c
    THEN LowerLetters[CHOOSE i \in DOMAIN UpperLetters : UpperLetters[i] = c]
    ELSE c

Lower(s) == [i \in DOMAIN s |-> LowerChar(s[i])]

\* dict.get(key, default) on a dictionary written as a set of (key, value) pairs
MapGet(M, key, default) ==
    IF \E p \in M : p[1] = key THEN (CHOOSE p \in M : p[1] = key)[2] ELSE default

\* tree_sitter_parser.TreeSitterExtractor.EXTENSION_MAP
EXTENSION_MAP ==
    {
      <<<<".", "p", "y">>, "python">>, <<<<".", "j", "a", "v", "a">>, "java">>, <<<<".", "j", "s">>, "javascript">>,
      <<<<".", "j", "s", "x">>, "javascript">>, <<<<".", "t", "s">>, "typescript">>, <<<<".", "t", "s", "x">>, "tsx">>,
      <<<<".", "c", "s">>, "c_sharp">>, <<<<".", "p", "h", "p">>, "php">>, <<<<".", "g", "o">>, "go">>,
      <<<<".", "r", "b">>, "ruby">>, <<<<".", "r", "s">>, "rust">>, <<<<".", "c">>, "c">>,
      <<<<".", "h">>, "c">>, <<<<".", "c", "p", "p">>, "cpp">>, <<<<".", "c", "c">>, "cpp">>,
      <<<<".", "h", "p", "p">>, "cpp">>, <<<<".", "s", "q", "l">>, "sql">> }

\* tree_sitter_extractor.TreeSitterExtractor.SUPPORTED_LANGUAGES
SUPPORTED_LANGUAGES ==
    {
      <<<<".", "p", "y">>, "python">>, <<<<".", "j", "a", "v", "a">>, "java">>, <<<<".", "j", "s">>, "javascript">>,
      <<<<".", "j", "s", "x">>, "javascript">>, <<<<".", "t", "s">>, "typescript">>, <<<<".", "t", "s", "x">>, "typescript">>,
      <<<<".", "c">>, "c">>, <<<<".", "h">>, "c">>, <<<<".", "c", "p", "p">>, "cpp">>,
      <<<<".", "h", "p", "p">>, "cpp">>, <<<<".", "c", "c">>, "cpp">>, <<<<".", "c", "x", "x">>, "cpp">>,
      <<<<".", "c", "s">>, "c_sharp">>, <<<<".", "g", "o">>, "go">>, <<<<".", "r", "s">>, "rust">>,
      <<<<".", "r", "b">>, "ruby">>, <<<<".", "p", "h", "p">>, "php">>, <<<<".", "s", "h">>, "bash">>,
      <<<<".", "s", "q", "l">>, "sql">> }

\* multi_language_extractor.LanguageDetector.LANGUAGE_MAP
LANGUAGE_MAP ==
    {
      <<<<".", "p", "y">>, "python">>, <<<<".", "j", "a", "v", "a">>, "java">>, <<<<".", "j", "s">>, "javascript">>,
      <<<<".", "t", "s">>, "typescript">>, <<<<".", "j", "s", "x">>, "javascript">>, <<<<".", "t", "s", "x">>, "typescript">>,
      <<<<".", "c", "s">>, "csharp">>, <<<<".", "p", "h", "p">>, "php">>, <<<<".", "r", "b">>, "ruby">>,
      <<<<".", "g", "o">>, "go">>, <<<<".", "c", "p", "p">>, "cpp">>, <<<<".", "c">>, "c">>,
      <<<<".", "h">>, "c">>, <<<<".", "h", "p", "p">>, "cpp">>, <<<<".", "s", "q", "l">>, "sql">>,
      <<<<".", "p", "l">>, "perl">>, <<<<".", "c", "b", "l">>, "cobol">>, <<<<".", "c", "o", "b">>, "cobol">> }

\* tree_sitter_parser: detect_language
TSP_detect_language(file) == MapGet(EXTENSION_MAP, Lower(file.suffix), None)

\* tree_sitter_extractor: detect_language
TSE_detect_language(file) == MapGet(SUPPORTED_LANGUAGES, Lower(file.suffix), None)

\* multi_language_extractor: LanguageDetector.detect
LanguageDetector_detect(file) == MapGet(LANGUAGE_MAP, Lower(file.suffix), "unknown")

\* the outcome of a call: a returned value or a raised exception
Return(value) == [kind |-> "return", value |-> value]
Raise(exception) == [kind |-> "raise", value |-> exception]

NoImports == [imports |-> <<>>, from_imports |-> EmptyDict]

(***************************************************************************)
(* skills/tree_sitter_parser.py                                            *)
(***************************************************************************)
\* the languages _init_parsers asks a parser for
TSP_Languages ==
    {"python", "java", "javascript", "typescript", "tsx", "c_sharp", "php", "go",
     "ruby", "rust", "c", "cpp"}

\* _init_parsers: a parser for every language whose grammar loads
TSP_init_parsers(loadable) == TSP_Languages \cap loadable

TSP_empty_result(language) ==
    [language |-> language, imports |-> NoImports, sql_queries |-> <<>>, db_calls |-> <<>>]

\* the languages with an _extract_<language> of their own; the others go
\* through _extract_generic, which collects no imports
TSP_Specific ==
    {"python", "java", "javascript", "typescript", "tsx", "c_sharp", "php", "go", "ruby"}

TSP_ReportedLanguage(language) ==
    IF language \in {"javascript", "typescript", "tsx"} THEN "javascript" ELSE language

\* extract_dependencies; _node_text decodes the text of a node as UTF-8
\* outside of any try
TSP_extract_dependencies(ps, file) ==
    LET language == TSP_detect_language(file)
    IN  IF language = None \/ language \notin ps
        THEN Return(TSP_empty_result(IF language = None THEN "unknown" ELSE language))
        ELSE IF ~file.readable
        THEN Return(TSP_empty_result(language))
        ELSE IF ~file.utf8
        THEN Raise("UnicodeDecodeError")
        ELSE Return([language |-> TSP_ReportedLanguage(language),
                     imports |-> [imports |-> IF language \in TSP_Specific
                                              THEN file.imports ELSE <<>>,
                                  from_imports |-> EmptyDict],
                     sql_queries |-> <<>>,
                     db_calls |-> <<>>])

\* the path components scan_directory_with_tree_sitter skips
TSP_Skipped == {"__pycache__", "node_modules", ".git", "venv"}

(***************************************************************************)
(* skills/tree_sitter_extractor.py                                         *)
(***************************************************************************)
TSE_ErrorRecord(language, message) ==
    [language |-> language, error |-> message, imports |-> <<>>, sql_queries |-> <<>>]

\* the languages with an _extract_<language> of their own
TSE_Specific == {"python", "java", "javascript", "typescript", "c_sharp", "php", "go", "ruby"}

\* the key under which the _extract_<language> method looks the grammar up
\* in self._languages: _extract_javascript serves javascript and typescript
\* and always reads self._languages['javascript']
TSE_QueryLanguage(language) == IF language = "typescript" THEN "javascript" ELSE language

\* the 'language' of the record: _extract_javascript always says 'javascript'
TSE_ReportedLanguage(language) == IF language = "typescript" THEN "javascript" ELSE language

TSE_Record(language, file, imports) ==
    [language |-> language, file_path |-> file.path, imports |-> imports,
     from_imports |-> EmptyDict, sql_queries |-> <<>>, function_calls |-> <<>>]

\* extract_dependencies with get_parser: the outcome and the parser cache
\* after the call.  A query compiled for one grammar and run on the tree of
\* another captures what the node numbering of the other grammar happens to
\* give: the imports of the file if `captures`, none otherwise.
TSE_extract_dependencies(ps, loadable, captures, file) ==
    LET language == TSE_detect_language(file)
        loaded == ps \cup {language}
        key == TSE_QueryLanguage(language)
    IN  IF language = None
        THEN <<Return(TSE_ErrorRecord("unsupported", "Unsupported file extension")), ps>>
        ELSE IF ~file.readable
        THEN <<Return(TSE_ErrorRecord(language, "Failed to read file")), ps>>
        ELSE IF language \notin ps /\ language \notin loadable
        THEN <<Raise("ValueError"), ps>>
        ELSE IF language \notin TSE_Specific
        THEN <<Return(TSE_Record(language, file, <<>>)), loaded>>
        ELSE IF key \notin loaded
        THEN <<Raise("KeyError"), loaded>>
        ELSE IF ~file.utf8
        THEN <<Raise("UnicodeDecodeError"), loaded>>
        ELSE IF key # language /\ ~captures
        THEN <<Return(TSE_Record(TSE_ReportedLanguage(language), file, <<>>)), loaded>>
        ELSE <<Return(TSE_Record(TSE_ReportedLanguage(language), file, file.imports)), loaded>>

\* the path components scan_directory_with_tree_sitter skips
TSE_Skipped == {"__pycache__", ".git"}

(***************************************************************************)
(* skills/multi_language_extractor.py                                      *)
(***************************************************************************)
\* self.extractors: the extractor class that serves a language
MLE_Extractor(language) ==
    CASE language = "python" -> "PythonExtractor"
      [] language = "java" -> "JavaExtractor"
      [] language \in {"javascript", "typescript"} -> "JavaScriptExtractor"
      [] language = "csharp" -> "CSharpExtractor"
      [] language = "php" -> "PHPExtractor"
      [] language = "sql" -> "SQLExtractor"
      [] OTHER -> "GenericExtractor"

MLE_Language(class) ==
    CASE class = "PythonExtractor" -> "python"
      [] class = "JavaExtractor" -> "java"
      [] class = "JavaScriptExtractor" -> "javascript"
      [] class = "CSharpExtractor" -> "csharp"
      [] class = "PHPExtractor" -> "php"
      [] class = "SQLExtractor" -> "sql"
      [] OTHER -> "unknown"

MLE_Record(language, imports) ==
    [language |-> language, imports |-> [imports |-> imports, from_imports |-> EmptyDict],
     sql_queries |-> <<>>, db_calls |-> <<>>]

\* <class>.extract: the regex extractors open the file as UTF-8 inside a
\* bare try and return _empty_result() when that fails; GenericExtractor
\* reads with errors='ignore' and collects no imports; the ast_parser
\* functions behind PythonExtractor catch SyntaxError, UnicodeDecodeError
\* and FileNotFoundError only
MLE_extract(class, file) ==
    CASE class = "GenericExtractor" -> Return(MLE_Record("unknown", <<>>))
      [] class = "PythonExtractor" ->
            IF ~file.readable THEN Raise("PermissionError")
            ELSE IF ~file.utf8 THEN Return(MLE_Record("python", <<>>))
            ELSE Return(MLE_Record("python", file.imports))
      [] class = "SQLExtractor" ->
            Return([language |-> "sql", imports |-> NoImports, sql_queries |-> <<>>,
                    tables_defined |-> <<>>])
      [] OTHER ->
            IF ~file.readable \/ ~file.utf8
            THEN Return(MLE_Record(MLE_Language(class), <<>>))
            ELSE Return(MLE_Record(MLE_Language(class), file.imports))

\* MultiLanguageDependencyExtractor.extract_dependencies: the generic
\* extractor is the fallback of a failed extraction
MLE_extract_dependencies(file, language) ==
    LET first == MLE_extract(MLE_Extractor(language), file)
    IN  IF first.kind = "raise" THEN MLE_extract("GenericExtractor", file) ELSE first

\* the suffixes scan_multi_language_directory leaves out
MLE_Binary ==
    {<<".", "e", "x", "e">>, <<".", "d", "l", "l">>, <<".", "s", "o">>, <<".", "c", "l", "a", "s", "s">>}

\* `if language == 'unknown' and file_path.suffix in [...]: continue`
MLE_Skips(file) == LanguageDetector_detect(file) = "unknown" /\ file.suffix \in MLE_Binary

(***************************************************************************)
(* The callers of the extractors: a caller that holds one extractor        *)
(* instance and calls extract_dependencies, and the directory scans.       *)
(***************************************************************************)
File(path, suffix, readable, utf8, within, imports) ==
    [path |-> path, suffix |-> suffix, readable |-> readable, utf8 |-> utf8,
     within |-> within, imports |-> imports]

SourceFiles ==
    { File("a.py", <<".", "p", "y">>, TRUE, TRUE, None, <<"os">>),
      File("B.PY", <<".", "P", "Y">>, TRUE, TRUE, None, <<"sys">>),
      File("c.ts", <<".", "t", "s">>, TRUE, TRUE, None, <<"./d">>),
      File("d.js", <<".", "j", "s">>, TRUE, TRUE, None, <<"fs">>),
      File("e.java", <<".", "j", "a", "v", "a">>, FALSE, TRUE, None, <<"java.util.List">>),
      File("f.py", <<".", "p", "y">>, TRUE, FALSE, None, <<"re">>),
      File("g.md", <<".", "m", "d">>, TRUE, TRUE, None, <<>>),
      File("h.exe", <<".", "e", "x", "e">>, TRUE, FALSE, None, <<>>),
      File("i.go", <<".", "g", "o">>, TRUE, TRUE, None, <<"fmt">>),
      File("venv/j.py", <<".", "p", "y">>, TRUE, TRUE, "venv", <<"os">>) }

\* every grammar loads, or every grammar but the one of Go
AllGrammars ==
    {"python", "java", "javascript", "typescript", "tsx", "c", "cpp", "c_sharp", "go",
     "rust", "ruby", "php", "bash", "sql"}

GrammarSets == {AllGrammars, AllGrammars \ {"go"}}

Extractors == {"tree_sitter_parser", "tree_sitter_extractor", "multi_language_extractor"}

\* rglob yields every file once
Directories ==
    {d \in SeqsUpTo(SourceFiles, MaxDir) : \A i, j \in DOMAIN d : d[i] = d[j] => i = j}

\* build_topology is not running
TopoIdle ==
    /\ HAS_NETWORKX = TRUE
    /\ files = <<>>
    /\ schema_tables = <<>>
    /\ pc = "idle"
    /\ idx = 1
    /\ graph = EmptyGraph
    /\ modules = {}
    /\ tables = {}
    /\ sources = <<>>
    /\ module_map = EmptyDict
    /\ metrics = EmptyDict
    /\ spofs = <<>>
    /\ circular = <<>>
    /\ data = EmptyDict
    /\ saved = {}

\* an extractor instance right after its construction, in the hands of a
\* caller of extract_dependencies or of a directory scan
ScanInit ==
    /\ TopoIdle
    /\ RestIdle
    /\ extractor \in Extractors
    /\ grammars \in GrammarSets
    /\ cross_captures \in (IF extractor = "tree_sitter_extractor" THEN BOOLEAN ELSE {FALSE})
    /\ \/ scan_pc = "calls" /\ directory = <<>>
       \/ scan_pc = "scan" /\ directory \in Directories
    /\ scan_idx = 1
    /\ parsers = IF extractor = "tree_sitter_parser" THEN TSP_init_parsers(grammars) ELSE {}
    /\ results = EmptyDict
    /\ calls = <<>>

\* results[str(rel_path)] = dependencies
SetResult(path, value) == results' = DictUpdate(results, [p \in {path} |-> value])

LogCall(file, outcome) == calls' = Append(calls, [file |-> file, outcome |-> outcome])

\* a call of tree_sitter_parser.TreeSitterExtractor.extract_dependencies
TSP_Call ==
    /\ scan_pc = "calls"
    /\ extractor = "tree_sitter_parser"
    /\ Len(calls) < MaxCalls
    /\ \E file \in SourceFiles : LogCall(file, TSP_extract_dependencies(parsers, file))
    /\ UNCHANGED <<topoVars, restVars, extractor, grammars, cross_captures, directory, scan_pc,
                   scan_idx, parsers, results>>

\* a call of tree_sitter_extractor.TreeSitterExtractor.extract_dependencies
TSE_Call ==
    /\ scan_pc = "calls"
    /\ extractor = "tree_sitter_extractor"
    /\ Len(calls) < MaxCalls
    /\ \E file \in SourceFiles :
          LET r == TSE_extract_dependencies(parsers, grammars, cross_captures, file)
          IN  LogCall(file, r[1]) /\ parsers' = r[2]
    /\ UNCHANGED <<topoVars, restVars, extractor, grammars, cross_captures, directory, scan_pc,
                   scan_idx, results>>

\* a call of MultiLanguageDependencyExtractor.extract_dependencies(file_path)
MLE_Call ==
    /\ scan_pc = "calls"
    /\ extractor = "multi_language_extractor"
    /\ Len(calls) < MaxCalls
    /\ \E file \in SourceFiles :
          LogCall(file, MLE_extract_dependencies(file, LanguageDetector_detect(file)))
    /\ UNCHANGED <<topoVars, restVars, extractor, grammars, cross_captures, directory, scan_pc,
                   scan_idx, parsers, results>>

\* tree_sitter_parser.scan_directory_with_tree_sitter: one turn of the loop
TSP_ScanFile ==
    /\ scan_pc = "scan"
    /\ extractor = "tree_sitter_parser"
    /\ scan_idx <= Len(directory)
    /\ LET file == directory[scan_idx]
           outcome == TSP_extract_dependencies(parsers, file)
       IN  IF file.within \in TSP_Skipped \/ TSP_detect_language(file) = None
           THEN UNCHANGED results
           ELSE IF outcome.kind = "return"
           THEN SetResult(file.path, outcome.value)
           ELSE UNCHANGED results
    /\ scan_idx' = scan_idx + 1
    /\ UNCHANGED <<topoVars, restVars, extractor, grammars, cross_captures, directory, scan_pc,
                   parsers, calls>>

\* tree_sitter_extractor.scan_directory_with_tree_sitter: one turn of the loop
TSE_ScanFile ==
    /\ scan_pc = "scan"
    /\ extractor = "tree_sitter_extractor"
    /\ scan_idx <= Len(directory)
    /\ LET file == directory[scan_idx]
           language == TSE_detect_language(file)
           r == TSE_extract_dependencies(parsers, grammars, cross_captures, file)
       IN  IF file.within \in TSE_Skipped \/ language = None
           THEN UNCHANGED <<results, parsers>>
           ELSE /\ parsers' = r[2]
                /\ IF r[1].kind = "return"
                   THEN SetResult(file.path, r[1].value)
                   ELSE SetResult(file.path, TSE_ErrorRecord(language, r[1].value))
    /\ scan_idx' = scan_idx + 1
    /\ UNCHANGED <<topoVars, restVars, extractor, grammars, cross_captures, directory, scan_pc, calls>>

\* multi_language_extractor.scan_multi_language_directory: one turn of the
\* loop; the call of extract_dependencies stands in no try
MLE_ScanFile ==
    /\ scan_pc = "scan"
    /\ extractor = "multi_language_extractor"
    /\ scan_idx <= Len(directory)
    /\ LET file == directory[scan_idx]
           outcome == MLE_extract_dependencies(file, LanguageDetector_detect(file))
       IN  IF file.within = "__pycache__" \/ MLE_Skips(file)
           THEN UNCHANGED <<results, scan_pc>>
           ELSE IF outcome.kind = "return"
           THEN SetResult(file.path, outcome.value) /\ UNCHANGED scan_pc
           ELSE scan_pc' = "raised" /\ UNCHANGED results
    /\ scan_idx' = scan_idx + 1
    /\ UNCHANGED <<topoVars, restVars, extractor, grammars, cross_captures, directory, parsers, calls>>

\* `return results`
ScanReturn ==
    /\ scan_pc = "scan"
    /\ scan_idx > Len(directory)
    /\ scan_pc' = "returned"
    /\ UNCHANGED <<topoVars, restVars, extractor, grammars, cross_captures, directory, scan_idx,
                   parsers, results, calls>>

ScanNext ==
    \/ TSP_Call
    \/ TSE_Call
    \/ MLE_Call
    \/ TSP_ScanFile
    \/ TSE_ScanFile
    \/ MLE_ScanFile
    \/ ScanReturn

ScanSpec == ScanInit /\ [][ScanNext]_vars

(***************************************************************************)
(* SQL statements in string literals (src/skills/*.py).  Every extractor   *)
(* examines the string literals of a file in source order, keeps those it  *)
(* takes for SQL and records their type and table.  The tree-sitter        *)
(* extractors see string nodes, the regex extractors see source lines.     *)
(* A missing type or table is Absent, a value that no string equals.       *)
(***************************************************************************)
Absent == <<None>>

\* the character U+0060, which a TLA+ string cannot hold
Backtick == "U+0060"

Digits == {"0", "1", "2", "3", "4", "5", "6", "7", "8", "9"}

\* the characters \w matches
WordChars ==
    {UpperLetters[i] : i \in DOMAIN UpperLetters} \cup {LowerLetters[i] : i \in DOMAIN LowerLetters}
        \cup Digits \cup {"_"}

\* the characters \s matches and str.strip() removes
Whitespace == {" ", "\t", "\n"}

\* str.upper() on one character and on a string
UpperChar(c) ==
    IF \E i \in DOMAIN LowerLetters : LowerLetters[i] = c
    THEN UpperLetters[CHOOSE i \in DOMAIN LowerLetters : LowerLetters[i] = c]
    ELSE c

Upper(s) == [i \in DOMAIN s |-> UpperChar(s[i])]

RECURSIVE LStrip(_, _)
LStrip(s, chars) == IF s # <<>> /\ s[1] \in chars THEN LStrip(Tail(s), chars) ELSE s

RECURSIVE RStrip(_, _)
RStrip(s, chars) ==
    IF s # <<>> /\ s[Len(s)] \in chars THEN RStrip(SubSeq(s, 1, Len(s) - 1), chars) ELSE s

\* str.strip(chars) and str.strip()
StripChars(s, chars) == RStrip(LStrip(s, chars), chars)

Strip(s) == StripChars(s, Whitespace)

\* str.startswith(p)
StartsWith(s, p) == Len(p) <= Len(s) /\ SubSeq(s, 1, Len(p)) = p

\* p occurs in s at index i
OccursAt(s, p, i) == i + Len(p) - 1 <= Len(s) /\ SubSeq(s, i, i + Len(p) - 1) = p

\* p in s
Contains(s, p) == \E i \in 1..Len(s) : OccursAt(s, p, i)

Least(S) == CHOOSE i \in S : \A j \in S : i <= j

RECURSIVE RunEnd(_, _, _)
\* the index after the longest run of characters of chars that starts at i
RunEnd(s, i, chars) == IF i <= Len(s) /\ s[i] \in chars THEN RunEnd(s, i + 1, chars) ELSE i

RECURSIVE FindIn(_, _, _)
\* the index of the first character of chars at or after i, Len(s) + 1 if none
FindIn(s, i, chars) == IF i <= Len(s) /\ s[i] \notin chars THEN FindIn(s, i + 1, chars) ELSE i

\* \b at the position before s[i]
IsBoundary(s, i) ==
    (i > 1 /\ s[i - 1] \in WordChars) # (i <= Len(s) /\ s[i] \in WordChars)

\* re.search(r'(K1|K2|...)', s, re.IGNORECASE), with \b before and after as asked
SearchKeywords(s, kws, left, right) ==
    \E kw \in kws : \E i \in 1..Len(s) :
        /\ OccursAt(Upper(s), kw, i)
        /\ left => IsBoundary(s, i)
        /\ right => IsBoundary(s, i + Len(kw))

\* the match of r'KW\s+(\w+)' (re.IGNORECASE) that starts at i
IdentAfterAt(s, kw, i) ==
    LET w == i + Len(kw)
        b == RunEnd(s, w, Whitespace)
        e == RunEnd(s, b, WordChars)
    IN  IF OccursAt(Upper(s), kw, i) /\ b > w /\ e > b THEN SubSeq(s, b, e - 1) ELSE Absent

\* re.search(r'KW\s+(\w+)', s, re.IGNORECASE): group(1) of the leftmost match
IdentAfter(s, kw) ==
    LET hits == {i \in 1..Len(s) : IdentAfterAt(s, kw, i) # Absent}
    IN  IF hits = {} THEN Absent ELSE IdentAfterAt(s, kw, Least(hits))

\* the first pattern of the list that matches gives the table
FirstIdentAfter(s, kws) ==
    LET hits == {k \in DOMAIN kws : IdentAfter(s, kws[k]) # Absent}
    IN  IF hits = {} THEN Absent ELSE IdentAfter(s, kws[Least(hits)])

\* for keyword in kws: if query.upper().strip().startswith(keyword): return keyword
FirstPrefix(query, kws) ==
    LET hits == {k \in DOMAIN kws : StartsWith(Strip(Upper(query)), kws[k])}
    IN  IF hits = {} THEN Absent ELSE kws[Least(hits)]

\* for keyword in kws: if keyword in query.upper(): return keyword
FirstContained(query, kws) ==
    LET hits == {k \in DOMAIN kws : Contains(Upper(query), kws[k])}
    IN  IF hits = {} THEN Absent ELSE kws[Least(hits)]

\* group(1) of re.search(r'[Q]([^Q]*(?:K1|K2|...)[^Q]*)[Q]', line, re.IGNORECASE)
\* for the quote characters Q
QuotedGroup(line, quotes, kws) ==
    LET close(i) == FindIn(line, i + 1, quotes)
        inner(i) == SubSeq(line, i + 1, close(i) - 1)
        hits == {i \in 1..Len(line) :
                    /\ line[i] \in quotes
                    /\ close(i) <= Len(line)
                    /\ \E kw \in kws : Contains(Upper(inner(i)), kw)}
    IN  IF hits = {} THEN Absent ELSE inner(Least(hits))

\* group(1) of re.search(prefix + r'["\'](.+?)["\']', line), where prefix is
\* r'\.execute\s*\(\s*' or empty
LazyQuotedGroup(line, withExecute) ==
    LET quotes == {"\"", "'"}
        execute == <<".", "e", "x", "e", "c", "u", "t", "e">>
        open(i) ==
            IF withExecute
            THEN LET p == RunEnd(line, i + Len(execute), Whitespace)
                 IN  IF OccursAt(line, execute, i) /\ p <= Len(line) /\ line[p] = "("
                     THEN RunEnd(line, p + 1, Whitespace)
                     ELSE Len(line) + 1
            ELSE i
        close(i) == FindIn(line, open(i) + 2, quotes)
        hits == {i \in 1..Len(line) :
                    /\ open(i) <= Len(line)
                    /\ line[open(i)] \in quotes
                    /\ close(i) <= Len(line)}
    IN  IF hits = {} THEN Absent
        ELSE SubSeq(line, open(Least(hits)) + 1, close(Least(hits)) - 1)

KW_SELECT == <<"S", "E", "L", "E", "C", "T">>
KW_INSERT == <<"I", "N", "S", "E", "R", "T">>
KW_UPDATE == <<"U", "P", "D", "A", "T", "E">>
KW_DELETE == <<"D", "E", "L", "E", "T", "E">>
KW_CREATE == <<"C", "R", "E", "A", "T", "E">>
KW_DROP == <<"D", "R", "O", "P">>
KW_ALTER == <<"A", "L", "T", "E", "R">>
KW_FROM == <<"F", "R", "O", "M">>
KW_WHERE == <<"W", "H", "E", "R", "E">>
KW_JOIN == <<"J", "O", "I", "N">>
KW_INTO == <<"I", "N", "T", "O">>
KW_TABLE == <<"T", "A", "B", "L", "E">>

\* tree_sitter_parser.TreeSitterExtractor.SQL_KEYWORDS, a set: no keyword is
\* a prefix of another, so the order of iteration does not show
SQL_KEYWORDS == <<KW_SELECT, KW_INSERT, KW_UPDATE, KW_DELETE, KW_CREATE, KW_DROP, KW_ALTER>>

\* a sql_queries entry
SqlEntry(query, line, type, table) ==
    [query |-> query, line |-> line, type |-> type, table |-> table]

(***************************************************************************)
(* The source lines the extractors are run on.  A line is its text and the *)
(* syntax nodes tree-sitter finds in it, in the order walk_tree visits     *)
(* them.  A node is its type, its text, the type and the tokens of the     *)
(* function child and the property of a call, and its string children.     *)
(***************************************************************************)
Node(type, text, function_type, function_text, property, strings) ==
    [type |-> type, text |-> text, function_type |-> function_type,
     function_text |-> function_text, property |-> property, strings |-> strings]

StringNode(text) ==
    Node(IF text[1] = Backtick THEN "template_string" ELSE "string", text, None, None, None, <<>>)

\* object.method(...), with the string literals among its arguments
MethodCall(text, object, method, strings) ==
    Node("call_expression", text, "member_expression", <<object, method>>, method, strings)

\* name(...), with the string literals among its arguments
FunctionCall(text, name, strings) ==
    Node("call_expression", text, "identifier", <<name>>, None, strings)

SourceLine(text, nodes) == [text |-> text, nodes |-> nodes]

\* "SELECT * FROM users"
SelectUsers == <<"\"", "S", "E", "L", "E", "C", "T", " ", "*", " ", "F", "R", "O", "M", " ", "u", "s", "e", "r", "s", "\"">>
\* "INSERT INTO a SELECT * FROM b"
InsertSelect == <<"\"", "I", "N", "S", "E", "R", "T", " ", "I", "N", "T", "O", " ", "a", " ", "S", "E", "L", "E", "C", "T", " ", "*", " ", "F", "R", "O", "M", " ", "b", "\"">>
\* "UPDATE users SET name = ?"
UpdateUsers == <<"\"", "U", "P", "D", "A", "T", "E", " ", "u", "s", "e", "r", "s", " ", "S", "E", "T", " ", "n", "a", "m", "e", " ", "=", " ", "?", "\"">>
\* "CREATE TABLE t (id INT)"
CreateTable == <<"\"", "C", "R", "E", "A", "T", "E", " ", "T", "A", "B", "L", "E", " ", "t", " ", "(", "i", "d", " ", "I", "N", "T", ")", "\"">>
\* "DELETE FROM orders"
DeleteOrders == <<"\"", "D", "E", "L", "E", "T", "E", " ", "F", "R", "O", "M", " ", "o", "r", "d", "e", "r", "s", "\"">>
\* "  select id from users"
LowerSelect == <<"\"", " ", " ", "s", "e", "l", "e", "c", "t", " ", "i", "d", " ", "f", "r", "o", "m", " ", "u", "s", "e", "r", "s", "\"">>
\* "EXPLAIN SELECT 1"
ExplainSelect == <<"\"", "E", "X", "P", "L", "A", "I", "N", " ", "S", "E", "L", "E", "C", "T", " ", "1", "\"">>
\* "DROP TABLE t"
DropTable == <<"\"", "D", "R", "O", "P", " ", "T", "A", "B", "L", "E", " ", "t", "\"">>
\* "ALTER TABLE t ADD c"
AlterTable == <<"\"", "A", "L", "T", "E", "R", " ", "T", "A", "B", "L", "E", " ", "t", " ", "A", "D", "D", " ", "c", "\"">>
\* "INSERT INTO logs VALUES (1)"
InsertLogs == <<"\"", "I", "N", "S", "E", "R", "T", " ", "I", "N", "T", "O", " ", "l", "o", "g", "s", " ", "V", "A", "L", "U", "E", "S", " ", "(", "1", ")", "\"">>
\* "hello world"
HelloWorld == <<"\"", "h", "e", "l", "l", "o", " ", "w", "o", "r", "l", "d", "\"">>
\* the template literal SELECT 1
TemplateSelect == <<Backtick, "S", "E", "L", "E", "C", "T", " ", "1", Backtick>>
\* db.execute("DELETE FROM logs")
ExecuteCall == <<"d", "b", ".", "e", "x", "e", "c", "u", "t", "e", "(", "\"", "D", "E", "L", "E", "T", "E", " ", "F", "R", "O", "M", " ", "l", "o", "g", "s", "\"", ")">>

\* "DELETE FROM logs"
ExecuteArgument == SubSeq(ExecuteCall, 12, 29)
\* db.query(sql)
QueryCall == <<"d", "b", ".", "q", "u", "e", "r", "y", "(", "s", "q", "l", ")">>
\* rows.map(f)
MapCall == <<"r", "o", "w", "s", ".", "m", "a", "p", "(", "f", ")">>
\* cache.get(key)
GetCall == <<"c", "a", "c", "h", "e", ".", "g", "e", "t", "(", "k", "e", "y", ")">>
\* require("pg")
RequireCall == <<"r", "e", "q", "u", "i", "r", "e", "(", "\"", "p", "g", "\"", ")">>

Literal(text) == SourceLine(text, <<StringNode(text)>>)

\* a line holding a call and the string literals among its arguments
CallLine(call) == SourceLine(call.text, <<call>> \o [i \in DOMAIN call.strings |-> StringNode(call.strings[i])])

SqlSources ==
    { <<Literal(SelectUsers), Literal(InsertSelect), Literal(ExplainSelect)>>,
      <<Literal(UpdateUsers), Literal(CreateTable), Literal(DropTable)>>,
      <<Literal(DeleteOrders), Literal(LowerSelect), Literal(HelloWorld)>>,
      <<Literal(AlterTable), Literal(InsertLogs), Literal(TemplateSelect)>>,
      <<CallLine(MethodCall(ExecuteCall, "db", "execute", <<ExecuteArgument>>)), Literal(SelectUsers)>>,
      <<CallLine(MethodCall(QueryCall, "db", "query", <<>>)), CallLine(MethodCall(MapCall, "rows", "map", <<>>)),
        CallLine(MethodCall(GetCall, "cache", "get", <<>>))>>,
      <<CallLine(FunctionCall(RequireCall, "require", <<SubSeq(RequireCall, 9, 12)>>)),
        CallLine(MethodCall(QueryCall, "db", "query", <<>>))>>,
      <<>> }

SqlBackends ==
    {"tree_sitter_parser", "tree_sitter_extractor", "PythonExtractor", "JavaExtractor",
     "JavaScriptExtractor", "CSharpExtractor", "PHPExtractor", "GenericExtractor"}

\* an extractor about to collect the SQL statements of a source file
SqlInit ==
    /\ TopoIdle
    /\ ScanIdle
    /\ TrIdle /\ GateIdle /\ CliIdle
    /\ sql_backend \in SqlBackends
    /\ sql_literals \in SqlSources
    /\ sql_idx = 1
    /\ sql_found = <<>>
    /\ js_imports = {}
    /\ db_calls = <<>>

\* one step of the loop of the regex back-end b, which appends entries for the line
SqlStep(b, entries) ==
    /\ sql_backend = b
    /\ sql_idx <= Len(sql_literals)
    /\ sql_found' = sql_found \o entries
    /\ sql_idx' = sql_idx + 1
    /\ UNCHANGED <<topoVars, scanVars, trVars, gateVars, cliVars, sql_backend, sql_literals, js_imports, db_calls>>

\* what the visit of some nodes adds to the three lists of _extract_javascript
Additions(imports, sql_queries, calls_) ==
    [imports |-> imports, sql_queries |-> sql_queries, db_calls |-> calls_]

NoAdditions == Additions({}, <<>>, <<>>)

\* the visit of the nodes of the next line by the tree-sitter back-end b
WalkStep(b, additions) ==
    /\ sql_backend = b
    /\ sql_idx <= Len(sql_literals)
    /\ js_imports' = js_imports \cup additions.imports
    /\ sql_found' = sql_found \o additions.sql_queries
    /\ db_calls' = db_calls \o additions.db_calls
    /\ sql_idx' = sql_idx + 1
    /\ UNCHANGED <<topoVars, scanVars, trVars, gateVars, cliVars, sql_backend, sql_literals>>

\* tree_sitter_parser.TreeSitterExtractor
TSP_get_query_type(query) == FirstPrefix(query, SQL_KEYWORDS)

TSP_extract_table_name(query) == FirstIdentAfter(query, <<KW_FROM, KW_INTO, KW_UPDATE, KW_TABLE>>)

\* walk_tree of _extract_javascript on one node: the first branch of the
\* if/elif chain whose condition holds is taken
TSP_walk_tree(node, line) ==
    IF node.type = "import_statement"
    THEN Additions({StripChars(node.strings[i], {"\"", "'"}) : i \in DOMAIN node.strings}, <<>>, <<>>)
    ELSE IF node.type = "call_expression"
    THEN Additions(IF node.function_text = <<"require">>
                   THEN {StripChars(node.strings[i], {"\"", "'"}) : i \in DOMAIN node.strings}
                   ELSE {},
                   <<>>, <<>>)
    ELSE IF node.type \in {"string", "template_string"}
    THEN LET text == StripChars(node.text, {"\"", Backtick, "'"})
         IN  Additions({},
                       IF \E kw \in Range(SQL_KEYWORDS) : Contains(Upper(text), kw)
                       THEN <<SqlEntry(text, line, TSP_get_query_type(text), TSP_extract_table_name(text))>>
                       ELSE <<>>,
                       <<>>)
    ELSE IF node.type = "call_expression"
    THEN Additions({}, <<>>,
                   IF /\ node.function_type = "member_expression"
                      /\ node.property \in {"query", "execute", "run", "all", "get"}
                   THEN <<[name |-> node.property, line |-> line]>>
                   ELSE <<>>)
    ELSE NoAdditions

RECURSIVE TSP_walk_nodes(_, _)
\* walk_tree on the nodes of a line, in order
TSP_walk_nodes(nodes, line) ==
    IF nodes = <<>> THEN NoAdditions
    ELSE LET first == TSP_walk_tree(Head(nodes), line)
             rest == TSP_walk_nodes(Tail(nodes), line)
         IN  Additions(first.imports \cup rest.imports, first.sql_queries \o rest.sql_queries,
                       first.db_calls \o rest.db_calls)

TSP_WalkLine == WalkStep("tree_sitter_parser", TSP_walk_nodes(sql_literals[sql_idx].nodes, sql_idx))

\* tree_sitter_extractor.TreeSitterExtractor
TSE_get_query_type(query) ==
    FirstPrefix(query, <<KW_SELECT, KW_INSERT, KW_UPDATE, KW_DELETE, KW_CREATE, KW_DROP>>)

TSE_extract_table_name(query) == FirstIdentAfter(query, <<KW_FROM, KW_INTO, KW_UPDATE>>)

\* what the captures of import_query and string_query on one node add;
\* nothing is ever added to function_calls
TSE_captures(node, line) ==
    IF node.type = "import_statement"
    THEN Additions({StripChars(node.strings[i], {"\"", "'"}) : i \in DOMAIN node.strings}, <<>>, <<>>)
    ELSE IF node.type = "call_expression"
    THEN Additions(IF /\ node.function_type = "identifier"
                      /\ node.function_text = <<"require">>
                   THEN {StripChars(node.strings[i], {"\"", "'"}) : i \in DOMAIN node.strings}
                   ELSE {},
                   <<>>, <<>>)
    ELSE IF node.type \in {"string", "template_string"}
    THEN LET text == StripChars(node.text, {"\"", "'", Backtick})
         IN  Additions({},
                       IF SearchKeywords(text, {KW_SELECT, KW_INSERT, KW_UPDATE, KW_DELETE}, TRUE, TRUE)
                       THEN <<SqlEntry(Strip(text), line, TSE_get_query_type(text), TSE_extract_table_name(text))>>
                       ELSE <<>>,
                       <<>>)
    ELSE NoAdditions

RECURSIVE TSE_capture_nodes(_, _)
\* the captures on the nodes of a line
TSE_capture_nodes(nodes, line) ==
    IF nodes = <<>> THEN NoAdditions
    ELSE LET first == TSE_captures(Head(nodes), line)
             rest == TSE_capture_nodes(Tail(nodes), line)
         IN  Additions(first.imports \cup rest.imports, first.sql_queries \o rest.sql_queries,
                       first.db_calls \o rest.db_calls)

TSE_CaptureLine == WalkStep("tree_sitter_extractor", TSE_capture_nodes(sql_literals[sql_idx].nodes, sql_idx))

\* ast_parser.extract_sql_queries, the body of the loop over the lines
Python_ScanLine ==
    LET text == sql_literals[sql_idx].text
        line == sql_idx
        words == {KW_SELECT, KW_INSERT, KW_UPDATE, KW_DELETE, KW_CREATE, KW_DROP, KW_ALTER,
                  KW_FROM, KW_WHERE, KW_JOIN}
        query == IF LazyQuotedGroup(text, TRUE) # Absent
                 THEN LazyQuotedGroup(text, TRUE)
                 ELSE LazyQuotedGroup(text, FALSE)
    IN  SqlStep("PythonExtractor",
            IF SearchKeywords(text, words, TRUE, TRUE) /\ query # Absent
            THEN <<SqlEntry(Strip(query), line,
                            FirstPrefix(query, <<KW_SELECT, KW_INSERT, KW_UPDATE, KW_DELETE, KW_CREATE, KW_DROP>>),
                            FirstIdentAfter(query, <<KW_FROM, KW_INTO, KW_UPDATE>>))>>
            ELSE <<>>)

\* multi_language_extractor.JavaExtractor
Java_get_query_type(query) ==
    FirstPrefix(query, <<KW_SELECT, KW_INSERT, KW_UPDATE, KW_DELETE, KW_CREATE, KW_DROP>>)

Java_extract_table_name(query) == FirstIdentAfter(query, <<KW_FROM, KW_INTO, KW_UPDATE>>)

Java_ScanLine ==
    LET text == sql_literals[sql_idx].text
        line == sql_idx
        kws == {KW_SELECT, KW_INSERT, KW_UPDATE, KW_DELETE, KW_CREATE}
        query == QuotedGroup(text, {"\"", "'"}, kws)
    IN  SqlStep("JavaExtractor",
            IF SearchKeywords(text, kws, FALSE, TRUE) /\ query # Absent
            THEN <<SqlEntry(Strip(query), line, Java_get_query_type(query), Java_extract_table_name(query))>>
            ELSE <<>>)

\* multi_language_extractor.JavaScriptExtractor
JavaScript_get_query_type(query) ==
    FirstContained(Strip(query), <<KW_SELECT, KW_INSERT, KW_UPDATE, KW_DELETE>>)

JavaScript_extract_table_name(query) == FirstIdentAfter(query, <<KW_FROM, KW_INTO>>)

\* one entry for the string pattern and one for the template pattern
JavaScript_ScanLine ==
    LET text == sql_literals[sql_idx].text
        line == sql_idx
        kws == {KW_SELECT, KW_INSERT, KW_UPDATE, KW_DELETE}
        entry(query) ==
            IF query # Absent
            THEN <<SqlEntry(Strip(query), line, JavaScript_get_query_type(query),
                            JavaScript_extract_table_name(query))>>
            ELSE <<>>
    IN  SqlStep("JavaScriptExtractor",
            IF SearchKeywords(text, kws, FALSE, TRUE)
            THEN entry(QuotedGroup(text, {"\"", "'"}, kws)) \o entry(QuotedGroup(text, {Backtick}, kws))
            ELSE <<>>)

\* multi_language_extractor.CSharpExtractor
CSharp_get_query_type(query) == FirstContained(query, <<KW_SELECT, KW_INSERT, KW_UPDATE, KW_DELETE>>)

CSharp_extract_table_name(query) == IdentAfter(query, KW_FROM)

CSharp_ScanLine ==
    LET text == sql_literals[sql_idx].text
        line == sql_idx
        kws == {KW_SELECT, KW_INSERT, KW_UPDATE, KW_DELETE}
        query == QuotedGroup(text, {"\""}, kws)
    IN  SqlStep("CSharpExtractor",
            IF SearchKeywords(text, kws, FALSE, TRUE) /\ query # Absent
            THEN <<SqlEntry(Strip(query), line, CSharp_get_query_type(query), CSharp_extract_table_name(query))>>
            ELSE <<>>)

\* multi_language_extractor.PHPExtractor
PHP_get_query_type(query) == FirstContained(query, <<KW_SELECT, KW_INSERT, KW_UPDATE, KW_DELETE>>)

PHP_extract_table_name(query) == IdentAfter(query, KW_FROM)

PHP_ScanLine ==
    LET text == sql_literals[sql_idx].text
        line == sql_idx
        kws == {KW_SELECT, KW_INSERT, KW_UPDATE, KW_DELETE}
        query == QuotedGroup(text, {"\"", "'"}, kws)
    IN  SqlStep("PHPExtractor",
            IF SearchKeywords(text, kws, FALSE, TRUE) /\ query # Absent
            THEN <<SqlEntry(Strip(query), line, PHP_get_query_type(query), PHP_extract_table_name(query))>>
            ELSE <<>>)

\* multi_language_extractor.GenericExtractor
Generic_get_query_type(query) == FirstContained(query, <<KW_SELECT, KW_INSERT, KW_UPDATE, KW_DELETE>>)

Generic_extract_table_name(query) == IdentAfter(query, KW_FROM)

\* the first of the two patterns that matches gives the entry
Generic_ScanLine ==
    LET text == sql_literals[sql_idx].text
        line == sql_idx
        kws == {KW_SELECT, KW_INSERT, KW_UPDATE, KW_DELETE}
        quoted == QuotedGroup(text, {"\"", "'"}, kws)
        query == IF quoted # Absent THEN quoted ELSE QuotedGroup(text, {Backtick}, kws)
    IN  SqlStep("GenericExtractor",
            IF SearchKeywords(text, kws, TRUE, TRUE) /\ query # Absent
            THEN <<SqlEntry(Strip(query), line, Generic_get_query_type(query), Generic_extract_table_name(query))>>
            ELSE <<>>)

SqlNext ==
    \/ TSP_WalkLine
    \/ TSE_CaptureLine
    \/ Python_ScanLine
    \/ Java_ScanLine
    \/ JavaScript_ScanLine
    \/ CSharp_ScanLine
    \/ PHP_ScanLine
    \/ Generic_ScanLine

SqlSpec == SqlInit /\ [][SqlNext]_vars

(***************************************************************************)
(* The engagement lifecycle (src/core/state_machine.py).  A call of        *)
(* validate_transition is applied to every pair of states and to lists of  *)
(* available artifacts, None included.                                     *)
(***************************************************************************)
\* EngagementState, in the order of the lifecycle
EngagementState == <<"new", "ingested", "analyzed", "reviewed", "finalized">>

VALID_TRANSITIONS(state) ==
    CASE state = "new" -> <<"ingested">>
      [] state = "ingested" -> <<"analyzed">>
      [] state = "analyzed" -> <<"reviewed">>
      [] state = "reviewed" -> <<"finalized">>
      [] state = "finalized" -> <<>>

\* TRANSITION_REQUIREMENTS.get((current, target), [])
TRANSITION_REQUIREMENTS(current, target) ==
    CASE current = "new" /\ target = "ingested" -> <<"repo_inventory", "db_schema">>
      [] current = "ingested" /\ target = "analyzed" -> <<"topology", "cost_drivers", "risk_register">>
      [] current = "analyzed" /\ target = "reviewed" -> <<"review_approval">>
      [] current = "reviewed" /\ target = "finalized" -> <<"executive_summary", "technical_appendix">>
      [] OTHER -> <<>>

\* a validation that looks at the order of the states only
validate_order(current, target, available_artifacts) ==
    IF target \notin Range(VALID_TRANSITIONS(current))
    THEN Raise("StateViolationError")
    ELSE Return(TRUE)

validate_transition(current, target, available_artifacts) ==
    IF target \notin Range(VALID_TRANSITIONS(current))
    THEN Raise("StateViolationError")
    ELSE LET required == TRANSITION_REQUIREMENTS(current, target)
         IN  IF /\ required # <<>>
                /\ available_artifacts # Absent
                /\ Range(required) \ Range(available_artifacts) # {}
             THEN Raise("StateViolationError")
             ELSE Return(TRUE)

\* the lists of available artifacts a caller passes, Absent for None
AvailableLists ==
    { Absent, <<>>,
      <<"repo_inventory">>, <<"db_schema", "repo_inventory">>,
      <<"repo_inventory", "db_schema", "query_logs">>,
      <<"topology", "risk_register">>, <<"risk_register", "cost_drivers", "topology">>,
      <<"review_approval">>, <<"executive_summary">>,
      <<"technical_appendix", "executive_summary", "action_plan">> }

TrInit ==
    /\ TopoIdle
    /\ ScanIdle
    /\ SqlIdle /\ GateIdle /\ CliIdle
    /\ \E current \in Range(EngagementState), target \in Range(EngagementState),
          available_artifacts \in AvailableLists :
           tr_call = [current |-> current, target |-> target,
                      available_artifacts |-> available_artifacts]
    /\ tr_outcome = [kind |-> "none", value |-> None]

\* the call returns or raises
ValidateTransition ==
    /\ tr_outcome.kind = "none"
    /\ tr_outcome' = validate_transition(tr_call.current, tr_call.target, tr_call.available_artifacts)
    /\ UNCHANGED <<topoVars, scanVars, sqlVars, gateVars, cliVars, tr_call>>

TrNext == ValidateTransition

TrSpec == TrInit /\ [][TrNext]_vars

(***************************************************************************)
(* The review gate (src/core/review_gate.py): the log of decisions in      *)
(* artifacts/reviews.json, the review_status field of the artifact files,  *)
(* and the queries computed from the log.                                  *)
(***************************************************************************)
\* the longest review log
MaxReviews == 3

ArtifactIds == {"repo_inventory", "topology"}

\* ReviewStatus
ReviewStatus == {"pending", "approved", "rejected", "request_changes"}

\* sorted(..., key = timestamp) is stable: r goes behind every entry that is
\* not later than it
InsertSorted(entries, r) ==
    LET k == Cardinality({i \in DOMAIN entries : entries[i].timestamp <= r.timestamp})
    IN  SubSeq(entries, 1, k) \o <<r>> \o SubSeq(entries, k + 1, Len(entries))

RECURSIVE SortedByTimestamp(_)
SortedByTimestamp(log) ==
    IF log = <<>> THEN <<>>
    ELSE InsertSorted(SortedByTimestamp(SubSeq(log, 1, Len(log) - 1)), log[Len(log)])

\* the keys of latest_status in the order of their insertion
RECURSIVE KeysOf(_)
KeysOf(entries) ==
    IF entries = <<>> THEN <<>>
    ELSE LET before == KeysOf(SubSeq(entries, 1, Len(entries) - 1))
             aid == entries[Len(entries)].artifact_id
         IN  IF aid \in Range(before) THEN before ELSE Append(before, aid)

\* latest_status[review["artifact_id"]] = review["decision"] over the sorted log
LatestStatus(log) ==
    LET entries == SortedByTimestamp(log)
    IN  [aid \in Range(KeysOf(entries)) |->
            LET n == CHOOSE i \in DOMAIN entries :
                         /\ entries[i].artifact_id = aid
                         /\ \A j \in DOMAIN entries : j > i => entries[j].artifact_id # aid
            IN  entries[n].decision]

\* None when no decision for the artifact is logged
get_artifact_status(log, artifact_id) ==
    LET artifact_reviews == SelectSeq(log, LAMBDA r : r.artifact_id = artifact_id)
    IN  IF artifact_reviews = <<>> THEN None
        ELSE SortedByTimestamp(artifact_reviews)[Len(artifact_reviews)].decision

get_pending_reviews(log) ==
    LET latest_status == LatestStatus(log)
    IN  SelectSeq(KeysOf(SortedByTimestamp(log)), LAMBDA aid : latest_status[aid] = "pending")

get_review_summary(log) ==
    LET latest_status == LatestStatus(log)
    IN  [status \in ReviewStatus |->
            Cardinality({aid \in DOMAIN latest_status : latest_status[aid] = status})]

\* ReviewGate(workspace_path) on a new workspace: _ensure_review_log writes []
GateInit ==
    /\ TopoIdle
    /\ ScanIdle
    /\ SqlIdle /\ TrIdle /\ CliIdle
    /\ reviews = <<>>
    /\ review_status = [aid \in ArtifactIds |-> None]
    /\ now = 0
    /\ gate_last = [method |-> "none", artifact_id |-> None]

\* submit_for_review(artifact, artifact_path): the artifact file is rewritten
\* with review_status PENDING; the log is not touched
SubmitForReview ==
    \E aid \in ArtifactIds :
        /\ review_status' = [review_status EXCEPT ![aid] = "pending"]
        /\ gate_last' = [method |-> "submit_for_review", artifact_id |-> aid]
        /\ UNCHANGED <<topoVars, scanVars, sqlVars, trVars, cliVars, reviews, now>>

\* ReviewDecision(...) stamped with datetime.now(), appended to the log
LogDecision(method, aid, decision) ==
    /\ Len(reviews) < MaxReviews
    /\ \E elapsed \in {0, 1} :
           /\ now' = now + elapsed
           /\ reviews' = Append(reviews, [artifact_id |-> aid, decision |-> decision,
                                          timestamp |-> now + elapsed])
    /\ gate_last' = [method |-> method, artifact_id |-> aid]
    /\ UNCHANGED <<topoVars, scanVars, sqlVars, trVars, cliVars, review_status>>

Approve == \E aid \in ArtifactIds : LogDecision("approve", aid, "approved")

Reject == \E aid \in ArtifactIds : LogDecision("reject", aid, "rejected")

RequestChanges == \E aid \in ArtifactIds : LogDecision("request_changes", aid, "request_changes")

GateNext == SubmitForReview \/ Approve \/ Reject \/ RequestChanges

GateSpec == GateInit /\ [][GateNext]_vars

(***************************************************************************)
(* The command line (src/alip/cli.py) on one engagement id: the persisted  *)
(* configuration config/engagement.json, the artifacts in the artifacts    *)
(* directory, and what the last command printed and returned.  The agents  *)
(* are represented by their outcome, succeeding (and saving their          *)
(* artifact) or raising.                                                   *)
(***************************************************************************)
\* no workspace directory for the engagement id
NoWorkspace == [exists |-> FALSE, state |-> "new", read_only_mode |-> TRUE]

\* EngagementConfig(engagement_id, client_name, **config_overrides), saved
EngagementConfig(read_only_mode) ==
    [exists |-> TRUE, state |-> "new", read_only_mode |-> read_only_mode]

\* config.update_state(new_state); save_engagement_config(ws, config)
update_state(cfg, new_state) == [cfg EXCEPT !.state = new_state]

\* how a command ends: what it leaves on disk, its exit code, the message it
\* ends with, and the artifacts it loaded
Ended(cfg, arts, exit_code, message, consumed) ==
    [config |-> cfg, artifacts |-> arts, exit_code |-> exit_code,
     message |-> message, consumed |-> consumed]

\* the options of ingest in the order the command handles them, and the
\* artifact IngestionAgent saves for each
IngestOptions == <<"repo", "db_schema", "query_logs", "docs">>

IngestedArtifact(option) ==
    CASE option = "repo" -> "repo_inventory"
      [] option = "db_schema" -> "db_schema"
      [] option = "query_logs" -> "query_logs"
      [] option = "docs" -> "documents"

\* the artifacts saved when the agent raises on the option `failing` (None:
\* it never raises): those of the given options handled before it
IngestedBefore(given, failing) ==
    { IngestedArtifact(IngestOptions[i]) : i \in
          { j \in DOMAIN IngestOptions :
                /\ IngestOptions[j] \in given
                /\ \A k \in 1..j : IngestOptions[k] # failing } }

\* alip new: init_workspace with the locale as the only override
cli_new(cfg, arts) ==
    Ended(EngagementConfig(TRUE), arts, 0, "Workspace created", {})

\* an ingest that records the new state as soon as read-only mode is verified
cli_ingest_eager(cfg, arts, given, failing) ==
    IF ~cfg.exists
    THEN Ended(cfg, arts, 1, "Error", {})
    ELSE IF validate_transition(cfg.state, "ingested", Absent).kind = "raise"
    THEN Ended(cfg, arts, 1, "State Violation", {})
    ELSE IF ~cfg.read_only_mode
    THEN Ended(cfg, arts, 1, "Security Error", {})
    ELSE IF failing \in given
    THEN Ended(update_state(cfg, "ingested"), arts \cup IngestedBefore(given, failing), 1, "Error", {})
    ELSE IF given = {}
    THEN Ended(update_state(cfg, "ingested"), arts, 1, "No data sources specified", {})
    ELSE Ended(update_state(cfg, "ingested"), arts \cup IngestedBefore(given, None),
               0, "Ingestion complete", {})

\* alip ingest with the options `given`
cli_ingest(cfg, arts, given, failing) ==
    IF ~cfg.exists
    THEN Ended(cfg, arts, 1, "Error", {})
    ELSE IF validate_transition(cfg.state, "ingested", Absent).kind = "raise"
    THEN Ended(cfg, arts, 1, "State Violation", {})
    ELSE IF ~cfg.read_only_mode
    THEN Ended(cfg, arts, 1, "Security Error", {})
    ELSE IF failing \in given
    THEN Ended(cfg, arts \cup IngestedBefore(given, failing), 1, "Error", {})
    ELSE IF given = {}
    THEN Ended(cfg, arts, 1, "No data sources specified", {})
    ELSE Ended(update_state(cfg, "ingested"), arts \cup IngestedBefore(given, None),
               0, "Ingestion complete", {})

\* the outcomes of the agents in analyze and report
AgentOutcomes == {"ok", "Exception"}

TopologyOutcomes == {"ok", "ImportError", "Exception"}

\* alip analyze
cli_analyze(cfg, arts, topology, cost, risk) ==
    IF ~cfg.exists
    THEN Ended(cfg, arts, 1, "Error", {})
    ELSE IF validate_transition(cfg.state, "analyzed", Absent).kind = "raise"
    THEN Ended(cfg, arts, 1, "State Violation", {})
    ELSE IF "repo_inventory" \notin arts
    THEN Ended(cfg, arts, 1, "Repository artifact not found", {})
    ELSE LET loaded == {"repo_inventory"} \cup (arts \cap {"db_schema"})
         IN  IF topology = "ImportError"
             THEN Ended(cfg, arts, 1, "Missing dependency", loaded)
             ELSE IF topology # "ok"
             THEN Ended(cfg, arts, 1, "Error during topology analysis", loaded)
             ELSE LET with_cost == IF cost = "ok" THEN {"cost_drivers"} ELSE {}
                      with_risk == IF risk = "ok" THEN {"risk_register"} ELSE {}
                  IN  Ended(update_state(cfg, "analyzed"),
                            arts \cup {"topology"} \cup with_cost \cup with_risk,
                            0, "Analysis complete",
                            loaded \cup (arts \cap {"query_logs", "documents"}))

\* alip report
cli_report(cfg, arts, synthesis) ==
    IF ~cfg.exists
    THEN Ended(cfg, arts, 1, "Error", {})
    ELSE IF cfg.state \notin {"analyzed", "reviewed", "finalized"}
    THEN Ended(cfg, arts, 1, "Must analyze before generating report", {})
    ELSE IF {"topology", "cost_drivers", "risk_register"} \ arts # {}
    THEN Ended(cfg, arts, 1, "Missing required artifacts", {})
    ELSE IF synthesis # "ok"
    THEN Ended(cfg, arts, 1, "Report generation failed", {"topology", "cost_drivers", "risk_register"})
    ELSE Ended(cfg, arts \cup {"synthesis", "executive_summary", "technical_appendix", "action_plan"},
               0, "Report generation complete", {"topology", "cost_drivers", "risk_register"})

\* alip run: analyze if it has not been done, then report
cli_run(cfg, arts, topology, cost, risk, synthesis) ==
    IF ~cfg.exists
    THEN Ended(cfg, arts, 1, "Error", {})
    ELSE IF cfg.state = "new"
    THEN Ended(cfg, arts, 1, "Must ingest data first", {})
    ELSE LET analysis == IF cfg.state \in {"new", "ingested"}
                         THEN cli_analyze(cfg, arts, topology, cost, risk)
                         ELSE Ended(cfg, arts, 0, "", {})
         IN  IF analysis.exit_code # 0
             THEN [analysis EXCEPT !.message = "Analysis failed"]
             ELSE LET reporting == cli_report(analysis.config, analysis.artifacts, synthesis)
                      loaded == analysis.consumed \cup reporting.consumed
                  IN  IF reporting.exit_code # 0
                      THEN [reporting EXCEPT !.exit_code = 1,
                                             !.message = "Report generation failed",
                                             !.consumed = loaded]
                      ELSE [reporting EXCEPT !.message = "Pipeline complete",
                                             !.consumed = loaded]

\* before any command: no workspace, or one made by init_workspace
CliInit ==
    /\ TopoIdle
    /\ ScanIdle
    /\ SqlIdle /\ TrIdle /\ GateIdle
    /\ config \in {NoWorkspace} \cup {EngagementConfig(b) : b \in BOOLEAN}
    /\ artifacts = {}
    /\ cli_last = [command |-> "none", exit_code |-> 0, message |-> "", consumed |-> {}]

\* a command has run to its end
Command(name, ended) ==
    /\ config' = ended.config
    /\ artifacts' = ended.artifacts
    /\ cli_last' = [command |-> name, exit_code |-> ended.exit_code,
                    message |-> ended.message, consumed |-> ended.consumed]
    /\ UNCHANGED <<topoVars, scanVars, sqlVars, trVars, gateVars>>

New == Command("new", cli_new(config, artifacts))

Ingest ==
    \E given \in SUBSET Range(IngestOptions), failing \in Range(IngestOptions) \cup {None} :
        Command("ingest", cli_ingest(config, artifacts, given, failing))

Analyze ==
    \E topology \in TopologyOutcomes, cost \in AgentOutcomes, risk \in AgentOutcomes :
        Command("analyze", cli_analyze(config, artifacts, topology, cost, risk))

Report ==
    \E synthesis \in AgentOutcomes :
        Command("report", cli_report(config, artifacts, synthesis))

Run ==
    \E topology \in TopologyOutcomes, cost \in AgentOutcomes, risk \in AgentOutcomes,
       synthesis \in AgentOutcomes :
        Command("run", cli_run(config, artifacts, topology, cost, risk, synthesis))

CliNext == New \/ Ingest \/ Analyze \/ Report \/ Run

CliSpec == CliInit /\ [][CliNext]_vars



(***************************************************************************)
(* Properties of build_topology.                                           *)
(***************************************************************************)
Done == pc = "done"

\* the ids of the tables the schema declares
DeclaredTableIds == {TableId(schema_tables[i].name) : i \in DOMAIN schema_tables}

\* the ids of the '.py' entries of the repository input
PythonFileIds == {ModuleId(files[i].path) : i \in {j \in DOMAIN files : files[j].extension = ".py"}}

\* the FOREIGN KEY columns of the schema: <<table entry, column>>
ForeignKeys ==
    {ik \in UNION {{<<i, k>> : k \in DOMAIN schema_tables[i].columns} : i \in DOMAIN schema_tables} :
        "foreign_key" \in DOMAIN schema_tables[ik[1]].columns[ik[2]]}

FkTarget(ik) == schema_tables[ik[1]].columns[ik[2]].foreign_key.table

EmittedNodes == Range(data.nodes)
EmittedEdges == Range(data.edges)

\* C1: every 'references' edge of the result has a target that is a table
\* declared in the schema, and a foreign key to a table the schema does not
\* declare leaves no node for that table.
C1_ReferencesOnlyDeclaredTables ==
    Done =>
        /\ \A e \in EmittedEdges : e.type = "references" => e.target \in DeclaredTableIds
        /\ \A n \in EmittedNodes : n.id[1] = "table" => n.id \in DeclaredTableIds

\* C2: no edge is in the graph before every Module node and every Table node
\* has been created.
C2_NodesBeforeEdges ==
    DOMAIN graph.edges # {} =>
        \A id \in PythonFileIds \cup DeclaredTableIds :
            HasNode(graph, id) /\ "type" \in DOMAIN graph.nodes[id]

\* C3: every emitted node has type 'module' or 'table', node ids are pairwise
\* distinct, and the number of nodes is statistics.modules + statistics.tables.
C3_NodesAreModulesAndTables ==
    Done =>
        /\ \A n \in EmittedNodes : n.type \in {"module", "table"}
        /\ \A j, k \in DOMAIN data.nodes : data.nodes[j].id = data.nodes[k].id => j = k
        /\ Len(data.nodes) = data.statistics.modules + data.statistics.tables


\* C4 as stated: one Module node for every source-file entry, whatever its
\* language, and one Table node for every table of the schema.
C4_OneNodePerFileAndTable ==
    Done =>
        /\ \A i \in DOMAIN files :
              Cardinality({k \in DOMAIN data.nodes :
                              /\ data.nodes[k].id = ModuleId(files[i].path)
                              /\ data.nodes[k].type = "module"}) = 1
        /\ \A i \in DOMAIN schema_tables :
              Cardinality({k \in DOMAIN data.nodes :
                              /\ data.nodes[k].id = TableId(schema_tables[i].name)
                              /\ data.nodes[k].type = "table"}) = 1

\* C4 (amended): one Module node for every source-file entry whose extension
\* is '.py', also when its record carries only an error, no Module node for
\* an entry of another language, and one Table node for every table of the
\* schema.
C4_OneNodePerPythonFileAndTable ==
    Done =>
        /\ \A i \in DOMAIN files :
              LET found == {k \in DOMAIN data.nodes :
                               /\ data.nodes[k].id = ModuleId(files[i].path)
                               /\ data.nodes[k].type = "module"}
              IN  IF files[i].extension = ".py"
                  THEN Cardinality(found) = 1
                  ELSE ModuleId(files[i].path) \notin PythonFileIds => found = {}
        /\ \A n \in EmittedNodes : n.type = "module" => n.id \in PythonFileIds
        /\ \A i \in DOMAIN schema_tables :
              Cardinality({k \in DOMAIN data.nodes :
                              /\ data.nodes[k].id = TableId(schema_tables[i].name)
                              /\ data.nodes[k].type = "table"}) = 1

\* a finished run over a file of another language, a file whose record
\* carries only an error, and a table
C4_Witness ==
    /\ Done
    /\ \E i \in DOMAIN files : files[i].extension # ".py"
    /\ \E i \in DOMAIN files : files[i].extension = ".py" /\ "error" \in DOMAIN files[i]
    /\ schema_tables # <<>>

\* the recorded SQL statements <<file entry, statement>> behind the edge e
UsesHits(e) ==
    {ik \in UNION {{<<i, k>> : k \in DOMAIN files[i].sql_queries} : i \in DOMAIN files} :
        /\ files[ik[1]].extension = ".py"
        /\ ModuleId(files[ik[1]].path) = e.source
        /\ files[ik[1]].sql_queries[ik[2]].table # None
        /\ TableId(files[ik[1]].sql_queries[ik[2]].table) = e.target}

\* C5: every recorded statement of a module whose table is a table of the
\* schema gives the 'uses' edge module -> table, and every 'uses' edge goes
\* from a module node to a table of the schema and has such a statement.
C5_UsesEdges ==
    Done =>
        /\ \A i \in DOMAIN files : \A k \in DOMAIN files[i].sql_queries :
              LET t == files[i].sql_queries[k].table
              IN  (files[i].extension = ".py" /\ t # None /\ TableId(t) \in DeclaredTableIds)
                  => \E e \in EmittedEdges :
                        /\ e.source = ModuleId(files[i].path)
                        /\ e.target = TableId(t)
                        /\ e.type = "uses"
        /\ \A e \in EmittedEdges :
              e.type = "uses" =>
                  /\ e.source \in PythonFileIds
                  /\ e.target \in DeclaredTableIds
                  /\ UsesHits(e) # {}

\* the foreign-key columns behind the edge e
RefHits(e) ==
    {ik \in ForeignKeys :
        /\ TableId(schema_tables[ik[1]].name) = e.source
        /\ TableId(FkTarget(ik)) = e.target}

LexLess(a, b) == a[1] < b[1] \/ (a[1] = b[1] /\ a[2] < b[2])
FirstOf(S) == CHOOSE a \in S : \A b \in S : b = a \/ LexLess(a, b)
LastOf(S) == CHOOSE a \in S : \A b \in S : b = a \/ LexLess(b, a)

UsesMeta(ik) ==
    [query_type |-> files[ik[1]].sql_queries[ik[2]].type,
     line |-> files[ik[1]].sql_queries[ik[2]].line]
RefMeta(ik) == [column |-> schema_tables[ik[1]].columns[ik[2]].name]

OneEdgePerPair ==
    \A j, k \in DOMAIN data.edges :
        (data.edges[j].source = data.edges[k].source
            /\ data.edges[j].target = data.edges[k].target) => j = k

\* C6 as stated: at most one edge per ordered pair, and the edge carries the
\* metadata of the first addition that hit the pair.
C6_FirstWriteWins ==
    Done =>
        /\ OneEdgePerPair
        /\ \A e \in EmittedEdges :
              /\ e.type = "uses" =>
                    UsesHits(e) # {} /\ e.metadata = UsesMeta(FirstOf(UsesHits(e)))
              /\ e.type = "references" =>
                    RefHits(e) # {} /\ e.metadata = RefMeta(FirstOf(RefHits(e)))

\* C6 (amended): at most one edge per ordered pair, and the edge carries the
\* type and metadata of the last addition that hit the pair.
C6_LastWriteWins ==
    Done =>
        /\ OneEdgePerPair
        /\ \A e \in EmittedEdges :
              /\ e.type = "uses" =>
                    UsesHits(e) # {} /\ e.metadata = UsesMeta(LastOf(UsesHits(e)))
              /\ e.type = "references" =>
                    RefHits(e) # {} /\ e.metadata = RefMeta(LastOf(RefHits(e)))

\* a finished run where two statements of one module hit one table and two
\* foreign-key columns of one table reference one table
C6_Witness ==
    /\ Done
    /\ \E e \in EmittedEdges :
          /\ e.type = "uses"
          /\ UsesMeta(FirstOf(UsesHits(e))) # UsesMeta(LastOf(UsesHits(e)))
    /\ \E e \in EmittedEdges :
          /\ e.type = "references"
          /\ RefMeta(FirstOf(RefHits(e))) # RefMeta(LastOf(RefHits(e)))

\* the canonical module name of the claim: '/' replaced by '.', the '.py'
\* extension stripped
CanonicalName(p) ==
    LET q == [i \in DOMAIN p |-> IF p[i] = "/" THEN "." ELSE p[i]]
    IN  IF Len(q) >= 3 /\ SubSeq(q, Len(q) - 2, Len(q)) = <<".", "p", "y">>
        THEN SubSeq(q, 1, Len(q) - 3)
        ELSE q

\* the import strings recorded for the module with the given path
ImportsOf(path) ==
    UNION {Range(files[i].imports) :
              i \in {j \in DOMAIN files : files[j].path = path /\ files[j].extension = ".py"}}

\* C7: the 'imports' edge module:m -> module:p is in the graph if and only if
\* an import string recorded for m equals the canonical name of p, and an
\* import string that names no module adds no node.
C7_ImportsByCanonicalName ==
    Done =>
        /\ \A i, j \in {k \in DOMAIN files : files[k].extension = ".py"} :
              (\E e \in EmittedEdges :
                    /\ e.source = ModuleId(files[i].path)
                    /\ e.target = ModuleId(files[j].path)
                    /\ e.type = "imports")
              <=> CanonicalName(files[j].path) \in ImportsOf(files[i].path)
        /\ \A n \in EmittedNodes : n.id[1] = "module" => n.id \in PythonFileIds


\* the last entry of the schema with the given table name
LastEntry(name) ==
    schema_tables[CHOOSE i \in DOMAIN schema_tables :
                     /\ schema_tables[i].name = name
                     /\ \A j \in DOMAIN schema_tables : schema_tables[j].name = name => j <= i]

\* the schema declares users and orders, and orders.user_id is the
\* foreign-key column of orders that references users
OrdersReferenceUsers ==
    /\ \E i \in DOMAIN schema_tables : schema_tables[i].name = "users"
    /\ \E ik \in ForeignKeys :
          schema_tables[ik[1]].name = "orders" /\ FkTarget(ik) = "users"
    /\ \A ik \in ForeignKeys :
          (schema_tables[ik[1]].name = "orders" /\ FkTarget(ik) = "users")
              => schema_tables[ik[1]].columns[ik[2]].name = "user_id"

IsChain ==
    /\ files \in {<<ChainA, ChainB>>, <<ChainB, ChainA>>}
    /\ schema_tables = <<UsersTable>>

ChainEdges ==
    {<<ModuleId(ChainA.path), ModuleId(ChainB.path)>>,
     <<ModuleId(ChainB.path), TableId("users")>>}

\* C9 as stated: the chain A -> B -> users has zero SPOFs and zero cycles.
C9_ChainNoSpofs ==
    (Done /\ IsChain) =>
        /\ data.spofs = <<>>
        /\ data.circular_dependencies = <<>>

\* C9 (amended): for the chain A -> B -> users the result has exactly one
\* SPOF, module B with betweenness centrality 1/2 and risk level 'high',
\* and zero circular dependencies.
C9_ChainOneSpof ==
    (Done /\ IsChain) =>
        /\ {<<e.source, e.target>> : e \in EmittedEdges} = ChainEdges
        /\ Len(data.spofs) = 1
        /\ data.statistics.spof_count = 1
        /\ data.spofs[1].node_id = ModuleId(ChainB.path)
        /\ RatEq(data.spofs[1].betweenness_centrality, Rat(1, 2))
        /\ data.spofs[1].risk_level = "high"
        /\ data.spofs[1].dependencies_count = 2
        /\ data.circular_dependencies = <<>>

\* a finished run of the chain scenario
C9_Witness == Done /\ IsChain /\ Len(data.nodes) = 3

\* the graph has no directed cycle through two or more nodes
NoProperCycle(g) ==
    \A u \in DOMAIN g.nodes : \A v \in Successors(g, u) \ {u} :
        u \notin DOMAIN ShortestDist(g, v)

\* C10: every reported cycle is a simple directed cycle of the graph with
\* at least 2 distinct nodes, the report is empty when the graph has no
\* such cycle, and a self-loop is never reported.
C10_CyclesAreSimple ==
    Done =>
        /\ \A k \in DOMAIN data.circular_dependencies :
              LET c == data.circular_dependencies[k]
              IN  /\ Len(c) >= 2
                  /\ \A i, j \in DOMAIN c : c[i] = c[j] => i = j
                  /\ \A i \in DOMAIN c :
                        /\ HasNode(graph, c[i])
                        /\ HasEdge(graph, c[i], c[(i % Len(c)) + 1])
        /\ NoProperCycle(graph) => data.circular_dependencies = <<>>

\* a finished run over a graph with a self-loop and a reported cycle
C10_Witness ==
    /\ Done
    /\ \E n \in DOMAIN graph.nodes : HasEdge(graph, n, n)
    /\ data.circular_dependencies # <<>>

\* the simple directed paths of the graph that extend `path`
RECURSIVE SimplePathsFrom(_, _)
SimplePathsFrom(g, path) ==
    {path} \cup UNION {SimplePathsFrom(g, Append(path, v)) :
                          v \in Successors(g, path[Len(path)]) \ Range(path)}

\* every simple directed cycle through two or more nodes, from each of its
\* starting points
DirectedCycles(g) ==
    {p \in UNION {SimplePathsFrom(g, <<n>>) : n \in DOMAIN g.nodes} :
        Len(p) >= 2 /\ HasEdge(g, p[Len(p)], p[1])}

IsRotation(c, d) ==
    /\ Len(c) = Len(d)
    /\ \E k \in 0..(Len(c) - 1) :
          \A i \in DOMAIN c : d[i] = c[((i - 1 + k) % Len(c)) + 1]

\* the graph has exactly the edges A->B, B->C, C->A
IsTriangle(g) ==
    \E A, B, C \in DOMAIN g.nodes :
        /\ Cardinality({A, B, C}) = 3
        /\ DOMAIN g.edges = {<<A, B>>, <<B, C>>, <<C, A>>}

\* two modules that import each other
MutualImports(g) ==
    \E A, B \in modules :
        A # B /\ HasEdge(g, A, B) /\ HasEdge(g, B, A)

\* C11: every simple directed cycle of two or more nodes of the graph is
\* reported exactly once up to rotation; the graph with exactly the edges
\* A->B, B->C, C->A gives one cycle over {A,B,C}; two modules that import
\* each other give a cycle of length 2.
C11_CyclesComplete ==
    Done =>
        LET cd == data.circular_dependencies
        IN  /\ \A c \in DirectedCycles(graph) :
                  Cardinality({k \in DOMAIN cd : IsRotation(c, cd[k])}) = 1
            /\ \A A, B, C \in DOMAIN graph.nodes :
                  (/\ Cardinality({A, B, C}) = 3
                   /\ DOMAIN graph.edges = {<<A, B>>, <<B, C>>, <<C, A>>})
                  => Len(cd) = 1 /\ Range(cd[1]) = {A, B, C}
            /\ MutualImports(graph) =>
                  \E k \in DOMAIN cd : Len(cd[k]) = 2 /\ Range(cd[k]) \subseteq modules

\* a finished run over the ring of three modules
C11_Witness == Done /\ IsTriangle(graph) /\ Len(data.circular_dependencies) = 1

\* C12: the reported density is edge_count / (node_count * (node_count - 1)),
\* it is 0 whenever node_count < 2, and for a graph of 2 nodes and exactly
\* one directed edge it is 0.5.
C12_DensityFormula ==
    pc \in {"spofs", "circular", "output", "done"} =>
        LET n == metrics.node_count
            m == metrics.edge_count
            d == metrics.density
        IN  /\ n = Cardinality(DOMAIN graph.nodes)
            /\ m = Cardinality(DOMAIN graph.edges)
            /\ n < 2 => d.num = 0 /\ d.den > 0
            /\ n >= 2 => d.den > 0 /\ d.num * (n * (n - 1)) = m * d.den
            /\ (n = 2 /\ m = 1) => d.num * 2 = d.den

\* the metrics of a graph of 2 nodes and one edge
C12_Witness ==
    /\ Done
    /\ metrics.node_count = 2
    /\ metrics.edge_count = 1
    /\ metrics.density.num * 2 = metrics.density.den

\* C13: for every topology built from any repository and schema input,
\* 0 <= density <= 1, that is edge_count <= node_count * (node_count - 1)
\* whenever node_count >= 2.
C13_DensityAtMostOne ==
    Done =>
        /\ metrics.density.num >= 0
        /\ metrics.density.den > 0
        /\ metrics.density.num <= metrics.density.den
        /\ metrics.node_count >= 2 =>
              metrics.edge_count <= metrics.node_count * (metrics.node_count - 1)

\* in-degree + out-degree of a node: a self-loop counts on both sides
IncidentEdges(g, n) ==
    Cardinality({e \in DOMAIN g.edges : e[2] = n}) + Cardinality({e \in DOMAIN g.edges : e[1] = n})

\* C14: the SPOF list holds exactly the nodes whose betweenness centrality
\* is strictly greater than 0.1, each once, with risk_level 'high' if its
\* centrality is greater than 0.3 and 'medium' otherwise and with
\* dependencies_count = in-degree + out-degree, and the list is
\* non-increasing in centrality.
C14_SpofList ==
    Done =>
        LET sp == data.spofs
            bc == BetweennessCentrality(graph)
        IN  /\ {sp[k].node_id : k \in DOMAIN sp} =
                   {n \in DOMAIN graph.nodes : bc[n].num * 10 > bc[n].den}
            /\ \A j, k \in DOMAIN sp : sp[j].node_id = sp[k].node_id => j = k
            /\ \A k \in DOMAIN sp :
                  LET c == sp[k].betweenness_centrality
                  IN  /\ RatEq(c, bc[sp[k].node_id])
                      /\ c.num * 10 > c.den
                      /\ sp[k].risk_level =
                            IF c.num * 10 > 3 * c.den THEN "high" ELSE "medium"
                      /\ sp[k].dependencies_count = IncidentEdges(graph, sp[k].node_id)
            /\ \A k \in 1..(Len(sp) - 1) :
                  ~RatGt(sp[k + 1].betweenness_centrality, sp[k].betweenness_centrality)

\* a finished run that reports SPOFs of both risk levels, not in the order
\* in which the graph holds their nodes
C14_Witness ==
    /\ Done
    /\ \E j, k \in DOMAIN data.spofs :
          /\ j < k
          /\ data.spofs[j].risk_level = "high"
          /\ data.spofs[k].risk_level = "medium"
          /\ Pos(graph, data.spofs[k].node_id) < Pos(graph, data.spofs[j].node_id)

\* C16: a run either fails at the construction of TopologyAgent, with
\* ImportError, exactly when networkx is unavailable and before any graph
\* is built or any artifact is written; or, when networkx is available,
\* build_topology runs to the end and returns the artifact.
C16_FailsAtConstructionOrReturns ==
    /\ ~HAS_NETWORKX =>
          /\ pc \in {"import", "init", "ImportError"}
          /\ graph = EmptyGraph
          /\ saved = {}
    /\ HAS_NETWORKX =>
          /\ pc \notin {"ImportError", "AttributeError"}
          /\ pc \in {"import", "init"} \cup {Phases[k] : k \in DOMAIN Phases}
          /\ idx \in 1..LoopLen(pc)
          /\ Done => data # EmptyDict /\ saved = SaveArtifact

\* C15: structural analysis never raises; for the empty graph (no files,
\* no tables) it returns node_count 0, edge_count 0, density 0, an empty
\* SPOF list, an empty cycle list, and max_degree_centrality and
\* max_betweenness_centrality reported as 0.
C15_EmptyGraphZeroMetrics ==
    (Done /\ files = <<>> /\ schema_tables = <<>>) =>
        /\ metrics.node_count = 0
        /\ metrics.edge_count = 0
        /\ metrics.density.num = 0
        /\ data.spofs = <<>>
        /\ data.circular_dependencies = <<>>
        /\ "max_degree_centrality" \in DOMAIN metrics
        /\ "max_betweenness_centrality" \in DOMAIN metrics
        /\ metrics.max_degree_centrality.num = 0
        /\ metrics.max_betweenness_centrality.num = 0

(***************************************************************************)
(* Properties of the extractors and of the directory scans.                *)
(***************************************************************************)
\* the language the detector of the module in use gives a file, None if none
DetectedLanguage(file) ==
    CASE extractor = "tree_sitter_parser" -> TSP_detect_language(file)
      [] extractor = "tree_sitter_extractor" -> TSE_detect_language(file)
      [] OTHER -> IF LanguageDetector_detect(file) = "unknown"
                  THEN None ELSE LanguageDetector_detect(file)

\* the file cannot be read, is wrongly encoded, or its grammar cannot be loaded
ExtractionFailed(file) ==
    \/ ~file.readable
    \/ ~file.utf8
    \/ /\ extractor # "multi_language_extractor"
       /\ DetectedLanguage(file) # None
       /\ DetectedLanguage(file) \notin grammars

\* C17: extract_dependencies of each extractor never raises to its caller:
\* for every file it returns a record, and when extraction failed the
\* record carries an 'error' message with empty imports and sql_queries.
C17_ExtractNeverRaises ==
    \A k \in DOMAIN calls :
        LET o == calls[k].outcome
        IN  /\ o.kind = "return"
            /\ (DetectedLanguage(calls[k].file) # None /\ ExtractionFailed(calls[k].file)) =>
                  /\ "error" \in DOMAIN o.value
                  /\ o.value.imports \in {<<>>, NoImports}
                  /\ o.value.sql_queries = <<>>

\* C18: a directory scan completes and returns a record for every
\* supported-language file of the directory, whatever files fail to
\* extract; the failing file itself is present in the result.
C18_ScanKeepsEveryFile ==
    /\ scan_pc # "raised"
    /\ scan_pc = "scan" => scan_idx <= Len(directory) + 1
    /\ scan_pc = "returned" =>
          \A i \in DOMAIN directory :
              (DetectedLanguage(directory[i]) # None /\ directory[i].within = None)
              => directory[i].path \in DOMAIN results

\* C19: the detected language depends only on the lower-cased extension,
\* and a file whose extension maps to no supported language has no entry
\* in the result of a directory scan.
C19_UnsupportedExcluded ==
    /\ \A f, g \in SourceFiles :
          Lower(f.suffix) = Lower(g.suffix) => DetectedLanguage(f) = DetectedLanguage(g)
    /\ \A i \in DOMAIN directory :
          DetectedLanguage(directory[i]) = None => directory[i].path \notin DOMAIN results

\* C20: the record of a file is a function of the file only: two calls of
\* extract_dependencies on the same file have the same outcome, whatever
\* the instance has extracted before and between them.
C20_RecordDependsOnFileOnly ==
    \A j, k \in DOMAIN calls :
        calls[j].file = calls[k].file =>
            /\ calls[j].outcome.kind = calls[k].outcome.kind
            /\ calls[j].outcome.value = calls[k].outcome.value

(***************************************************************************)
(* Properties of the SQL statements the extractors record (SqlSpec).       *)
(***************************************************************************)
\* the seven recognized statement keywords
RecognizedKeywords == {KW_SELECT, KW_INSERT, KW_UPDATE, KW_DELETE, KW_CREATE, KW_DROP, KW_ALTER}

\* the recognized keyword the trimmed, upper-cased text starts with
LeadingKeyword(query) ==
    LET starts == {kw \in RecognizedKeywords : StartsWith(Strip(Upper(query)), kw)}
    IN  IF starts = {} THEN Absent ELSE CHOOSE kw \in starts : TRUE

\* C21: in every back-end the type of a recorded SQL statement is the
\* recognized keyword that its trimmed, upper-cased text starts with, and is
\* absent when the text starts with none.
C21_TypeIsLeadingKeyword ==
    \A k \in DOMAIN sql_found : sql_found[k].type = LeadingKeyword(sql_found[k].query)

\* the identifier after FROM, else after INTO, else after UPDATE, else after TABLE
AttributedTable(query) ==
    IF IdentAfter(query, KW_FROM) # Absent THEN IdentAfter(query, KW_FROM)
    ELSE IF IdentAfter(query, KW_INTO) # Absent THEN IdentAfter(query, KW_INTO)
    ELSE IF IdentAfter(query, KW_UPDATE) # Absent THEN IdentAfter(query, KW_UPDATE)
    ELSE IdentAfter(query, KW_TABLE)

\* C22: in every back-end the table of a recorded SQL statement is the
\* identifier after FROM if the text has one, else the one after INTO, else
\* after UPDATE, else after TABLE, and none otherwise.
C22_TableByPriority ==
    \A k \in DOMAIN sql_found : sql_found[k].table = AttributedTable(sql_found[k].query)

\* the call sites among the nodes: member calls of an allow-listed method
RECURSIVE CallSitesOf(_, _)
CallSitesOf(nodes, line) ==
    IF nodes = <<>> THEN <<>>
    ELSE (IF /\ Head(nodes).type = "call_expression"
             /\ Head(nodes).function_type = "member_expression"
             /\ Head(nodes).property \in {"query", "execute", "run", "all", "get"}
          THEN <<[name |-> Head(nodes).property, line |-> line]>>
          ELSE <<>>) \o CallSitesOf(Tail(nodes), line)

\* the call sites of the first n lines, in source order
RECURSIVE CallSitesUpTo(_)
CallSitesUpTo(n) ==
    IF n = 0 THEN <<>> ELSE CallSitesUpTo(n - 1) \o CallSitesOf(sql_literals[n].nodes, n)

\* C23: for a JavaScript/TypeScript file the tree-sitter back-ends record
\* every call node whose callee is a member expression with a method name
\* among query, execute, run, all, get as a DB call site with its line
\* number, in source order.
C23_CallSitesRecorded ==
    sql_backend \in {"tree_sitter_parser", "tree_sitter_extractor"}
        => db_calls = CallSitesUpTo(sql_idx - 1)

(***************************************************************************)
(* The hand-off of the assembled graph to the analysis (Spec).             *)
(***************************************************************************)
\* the positions of build_topology after graph assembly
AfterAssembly == {"metrics", "spofs", "circular", "output"}

\* the nodes and edges lists of the artifact are the graph
EmittedIsGraph ==
    /\ [k \in DOMAIN data.nodes |-> data.nodes[k].id] = graph.order
    /\ \A k \in DOMAIN data.nodes :
           LET node_data == graph.nodes[data.nodes[k].id]
           IN  \A key \in DOMAIN node_data : data.nodes[k][key] = node_data[key]
    /\ {<<data.edges[k].source, data.edges[k].target>> : k \in DOMAIN data.edges} = DOMAIN graph.edges
    /\ Len(data.edges) = Cardinality(DOMAIN graph.edges)
    /\ \A k \in DOMAIN data.edges :
           LET edge_data == graph.edges[<<data.edges[k].source, data.edges[k].target>>]
           IN  \A key \in DOMAIN edge_data : data.edges[k][key] = edge_data[key]

\* C24: once graph assembly is complete, the metric, SPOF and cycle
\* computations and the output step leave the graph unchanged, so the
\* emitted nodes and edges lists are exactly the assembled graph and
\* total_nodes / total_edges equal the metrics node_count / edge_count.
C24_AnalysisLeavesGraph ==
    /\ [][(pc \in AfterAssembly) => (graph' = graph)]_vars
    /\ [](Done => /\ EmittedIsGraph
                  /\ data.statistics.total_nodes = metrics.node_count
                  /\ data.statistics.total_edges = metrics.edge_count)

\* a finished run whose graph has edges of several types and a SPOF or a cycle
C24_Witness ==
    /\ Done
    /\ Cardinality({graph.edges[e].type : e \in DOMAIN graph.edges}) >= 2
    /\ (spofs # <<>> \/ circular # <<>>)

(***************************************************************************)
(* Properties of the engagement lifecycle (TrSpec).                        *)
(***************************************************************************)
\* the position of a state in NEW -> INGESTED -> ANALYZED -> REVIEWED -> FINALIZED
StateNo(state) == CHOOSE k \in DOMAIN EngagementState : EngagementState[k] = state

\* the artifacts the transition into the k-th state requires
RequiredFor(k) ==
    CASE k = 2 -> {"repo_inventory", "db_schema"}
      [] k = 3 -> {"topology", "cost_drivers", "risk_register"}
      [] k = 4 -> {"review_approval"}
      [] k = 5 -> {"executive_summary", "technical_appendix"}
      [] OTHER -> {}

\* target is the immediate successor of current and no required artifact is
\* known to be missing
Permitted(call) ==
    /\ StateNo(call.target) = StateNo(call.current) + 1
    /\ \/ call.available_artifacts = Absent
       \/ RequiredFor(StateNo(call.target)) \subseteq Range(call.available_artifacts)

\* C25: validate_transition(current, target, available_artifacts) returns
\* True if and only if target is the single immediate successor of current
\* and available_artifacts is None or holds every artifact the transition
\* requires; in every other case it raises StateViolationError.
C25_ValidateTransition ==
    tr_outcome.kind # "none" =>
        /\ Permitted(tr_call) => tr_outcome.kind = "return" /\ tr_outcome.value = TRUE
        /\ ~Permitted(tr_call) =>
               tr_outcome.kind = "raise" /\ tr_outcome.value = "StateViolationError"

\* a call for the immediate successor that fails for a missing artifact only
C25_Witness ==
    /\ tr_call.current = "ingested" /\ tr_call.target = "analyzed"
    /\ tr_call.available_artifacts = <<"topology", "risk_register">>
    /\ tr_outcome.kind = "raise"

(***************************************************************************)
(* Properties of the review gate (GateSpec).                               *)
(***************************************************************************)
DecisionMethods == {"approve", "reject", "request_changes"}

\* the artifact is listed by get_pending_reviews and counted under pending
ListedPending(log, aid) ==
    /\ aid \in Range(get_pending_reviews(log))
    /\ get_review_summary(log)["pending"] >= 1

\* C27: after submit_for_review the artifact is listed by
\* get_pending_reviews() and counted under pending by get_review_summary(),
\* and it stays so until a decision is logged for it; after approve, reject
\* or request_changes it is not listed as pending and get_artifact_status
\* returns the decision logged last.
C27_PendingUntilDecided ==
    [][ /\ (gate_last'.method = "submit_for_review") =>
               ListedPending(reviews', gate_last'.artifact_id)
        /\ \A aid \in ArtifactIds :
               (/\ ListedPending(reviews, aid)
                /\ ~(gate_last'.method \in DecisionMethods /\ gate_last'.artifact_id = aid)) =>
                   ListedPending(reviews', aid)
        /\ (gate_last'.method \in DecisionMethods) =>
               /\ gate_last'.artifact_id \notin Range(get_pending_reviews(reviews'))
               /\ get_artifact_status(reviews', gate_last'.artifact_id) =
                      reviews'[Len(reviews')].decision ]_vars

\* what does hold: a logged decision is the status of the artifact and the
\* artifact is not listed as pending
DecisionIsStatus ==
    gate_last.method \in DecisionMethods =>
        /\ gate_last.artifact_id \notin Range(get_pending_reviews(reviews))
        /\ get_artifact_status(reviews, gate_last.artifact_id) = reviews[Len(reviews)].decision

(***************************************************************************)
(* Properties of the command line (CliSpec).                               *)
(***************************************************************************)
\* C26: analyze and report load an artifact of an earlier stage only when
\* the latest decision logged for it in the review log is approved.
C26_ConsumedAfterApproval ==
    \A aid \in cli_last.consumed : get_artifact_status(reviews, aid) = "approved"

\* the persisted state moved one step forward in this step
Advanced ==
    /\ config.exists /\ config'.exists
    /\ StateNo(config'.state) = StateNo(config.state) + 1

\* C28: whenever a command advances the persisted state across a
\* transition, the artifacts directory holds every artifact
\* TRANSITION_REQUIREMENTS lists for that transition.
C28_AdvanceHasRequirements ==
    [][Advanced =>
          Range(TRANSITION_REQUIREMENTS(config.state, config'.state)) \subseteq artifacts']_vars

\* C29: over every sequence of new, ingest, analyze, report and run on one
\* engagement id the persisted state changes only to its immediate
\* successor, so it never moves backward and never skips a state, and an
\* ingest or analyze that takes effect finds the state it leaves behind for
\* good (new, ingested), which is why each takes effect at most once.
C29_OneStepForward ==
    [][(config.exists /\ config'.exists /\ config'.state # config.state) =>
          StateNo(config'.state) = StateNo(config.state) + 1]_vars

\* C30: an ingest or analyze that ends with a non-zero exit code leaves
\* config/engagement.json as it was.
C30_FailureKeepsState ==
    [][(cli_last'.command \in {"ingest", "analyze"} /\ cli_last'.exit_code # 0) =>
          config' = config]_vars

\* an ingest that saved the repository inventory and then failed, the state
\* still being new
C30_Witness ==
    /\ cli_last.command = "ingest"
    /\ cli_last.exit_code # 0
    /\ cli_last.message = "Error"
    /\ config.exists /\ config.state = "new" /\ config.read_only_mode
    /\ "repo_inventory" \in artifacts
====
